---- MODULE Spec2Model ----
(***************************************************************************)
(* Marketplace ledger of cardify-auth: payment-intent creation, seller     *)
(* listing/cancel, and the Stripe webhook with its detached reconciliation *)
(* handlers, over the tables mkt_listings, mkt_transactions, mkt_payouts,  *)
(* mkt_profiles and user_assets.  Every awaited store call is one step.    *)
(***************************************************************************)
EXTENDS Integers, Sequences, FiniteSets, TLC

\* ---------------------------------------------------------------- bounds
MaxPI    == 2      \* checkout calls, each creating at most one payment intent
MaxReq   == 2      \* webhook POSTs received
MaxDbErr == 1      \* store calls that fail
MaxCco   == 2      \* credits checkout calls
MaxOnb   == 2      \* onboarding calls
MaxNow   == 2      \* clock ticks
MaxRaw   == 2      \* digits of a string held in local storage
MaxUp    == 2      \* uploadToSupabase calls
MaxCredits == 1    \* credits a buyer holds before the first upload

\* ---------------------------------------------------------------- constants
CREDITS_PER_USD == 4
ALLOWED_PACKS   == {20, 40, 60}
FIXED_PRICE_USD == 9
PayoutDelayMin  == 10
FREE_LIMIT      == 3

\* ---------------------------------------------------------------- universe
None       == "none"
Users      == {"s1", "b1", "b2"}
Buyers     == {"b1", "b2"}
ListingIds == {"l1"}
AssetIds   == {"a1"}
Sessions   == 1..MaxPI
\* the checkout specification takes one call more: a third call is the first
\* that can find two pending rows left by two concurrent ones
Calls      == 1..(MaxPI + 1)
Reqs       == 1..MaxReq
AmountsUsd == {10}
FeePercents == {5, 100}
Secrets    == {"primary", "connect", "market"}
SigKeys    == Secrets \cup {"other", "missing"}
EventTypes == {"payment_intent.succeeded", "other"}
AccountEvents == {"account.updated", "capability.updated",
                  "account.application.authorized"}
CcoCalls   == 1..MaxCco
OnbCalls   == 1..MaxOnb
PIds       == 1..(MaxPI + MaxCco)
UsdInputs  == {0, 10, 20, 40, 60}
\* ids the processor gives to the accounts it creates, in order
AcctNames  == <<"acct_1", "acct_2", "acct_3", "acct_4">>
AcctIds    == {"acct_s1"} \cup {AcctNames[i] : i \in DOMAIN AcctNames}

VARIABLES
  env,           \* which webhook secrets the process environment sets
  profiles,      \* mkt_profiles
  assets,        \* user_assets
  listings,      \* mkt_listings
  transactions,  \* mkt_transactions, in insertion order (row id = index)
  payouts,       \* mkt_payouts, in insertion order
  intents,       \* payment intents held by the processor (id = index)
  cpi,           \* create-payment-intent calls, in the order they start
  wh,            \* webhook requests and their detached handlers
  dbErrs,        \* number of store calls that have failed
  mixed,         \* history: a cancel or a checkout wrote to the tables after
                 \* a webhook event had been accepted
  ledger,        \* credits ledger, in insertion order
  cco,           \* credits checkout calls
  accounts,      \* connected accounts held by the processor
  onb,           \* onboarding calls
  now,           \* the clock, in minutes
  faults,        \* how many store calls may fail in this run
  storage,       \* the browser's local storage entry of the guest quota
  up,            \* uploadToSupabase calls
  bucket,        \* paths of the objects in the custom-uploads bucket
  images,        \* uploaded_images, in insertion order
  events         \* cardify-credits-updated events dispatched, in order

vars == <<env, profiles, assets, listings, transactions, payouts, intents,
          cpi, wh, dbErrs, mixed, ledger, cco, accounts, onb, now, faults,
          storage, up, bucket, images, events>>

db == <<profiles, assets, listings, transactions, payouts, ledger>>

\* the state no route writes
uploads == <<up, bucket, images, events>>

rest == <<faults, storage, uploads>>

\* the state the marketplace operations leave alone
side == <<ledger, cco, accounts, onb, now, rest>>

\* ---------------------------------------------------------------- helpers
Max(a, b) == IF a >= b THEN a ELSE b

\* Math.round of x / d for non-negative integers
RoundDiv(x, d) == (2 * x + d) \div (2 * d)

Idx(s) == DOMAIN s

NoListing == [status |-> "absent", is_active |-> FALSE, buyer_id |-> None,
              seller_id |-> None, source_type |-> None, source_id |-> None]

IdleCall == [pc |-> "idle", resp |-> "none", listingId |-> None, buyerId |-> None,
             amountCents |-> 0, feeCents |-> 0, stripeAcct |-> None, open |-> 0,
             openPid |-> 0, pid |-> 0]

\* the data.object of an event that is not about an account
NoObj == [id |-> None, user_id |-> None, charges_enabled |-> FALSE,
          payouts_enabled |-> FALSE, currently_due |-> "absent"]

NewReq == [pc |-> "new", resp |-> "none", ver |-> "none", sig |-> None,
           tried |-> <<>>, type |-> None, pi |-> 0, src |-> <<>>, acct |-> None,
           obj |-> NoObj, at |-> 0, when |-> 0, bal |-> 0]

IdleCheckout == [pc |-> "idle", resp |-> "none", user |-> None, usd |-> 0,
                 pid |-> 0]

IdleOnboard == [pc |-> "idle", resp |-> "none", ver |-> "none", user |-> None,
                accountId |-> None, created |-> None]

NoAccount == [exists |-> FALSE, user_id |-> None, charges_enabled |-> FALSE,
              payouts_enabled |-> FALSE, currently_due |-> "empty"]

\* some webhook event has been accepted and dispatched
Delivered == \E r \in Reqs : wh[r].pc \notin {"new", "rejected"}

\* a string as parseInt sees it: an optional minus sign, leading digits, and
\* whether other characters follow; the entry may be absent, and the storage
\* itself unavailable (its calls throw)
NoEntry == [avail |-> TRUE, present |-> FALSE, neg |-> FALSE, digits |-> <<>>,
            tail |-> FALSE]

UpCalls == 1..MaxUp

\* an uploadToSupabase call that has not started
IdleUpload == [pc |-> "idle", user |-> None, result |-> None]

\* no upload has started: the bucket and the uploaded_images table are empty
UploadIdle ==
  /\ up = [k \in UpCalls |-> IdleUpload]
  /\ bucket = {}
  /\ images = <<>>
  /\ events = <<>>

\* the browser before the guest has created anything and before any upload
ClientIdle == storage = NoEntry /\ UploadIdle

\* a store call either succeeds or fails; failures are budgeted
StoreCall(err) ==
  /\ err => dbErrs < faults
  /\ dbErrs' = IF err THEN dbErrs + 1 ELSE dbErrs

\* the tables other than mkt_profiles and the processes after deployment:
\* one asset of the seller, nothing listed, no request received
Tables0 ==
  /\ assets = [a \in AssetIds |->
       [owner_id |-> "s1", source_type |-> "uploaded_image", source_id |-> "u1"]]
  /\ listings = [l \in ListingIds |-> NoListing]
  /\ transactions = <<>>
  /\ payouts = <<>>
  /\ intents = <<>>
  /\ cpi = [s \in Calls |-> IdleCall]
  /\ wh = [r \in Reqs |-> NewReq]
  /\ dbErrs = 0
  /\ mixed = FALSE
  /\ ledger = <<>>
  /\ cco = [k \in CcoCalls |-> IdleCheckout]
  /\ accounts = [a \in AcctIds |->
       IF a = "acct_s1"
       THEN [exists |-> TRUE, user_id |-> None, charges_enabled |-> TRUE,
             payouts_enabled |-> TRUE, currently_due |-> "empty"]
       ELSE NoAccount]
  /\ onb = [k \in OnbCalls |-> IdleOnboard]
  /\ now = 0

\* the tables and processes after deployment: one connected seller (whose
\* account predates the user_id metadata) who owns one asset, nothing listed,
\* no request received
Ledger0 ==
  /\ \E adm \in BOOLEAN :
       profiles = [u \in Users |->
         IF u = "s1"
         THEN [stripe_account_id |-> "acct_s1", stripe_verified |-> TRUE,
               is_admin |-> adm, is_seller |-> TRUE, email |-> "mail", credits |-> 0]
         ELSE [stripe_account_id |-> None, stripe_verified |-> FALSE,
               is_admin |-> FALSE, is_seller |-> FALSE, email |-> "mail",
               credits |-> 0]]
  /\ Tables0

\* all three webhook secrets are set in the environment
Init ==
  /\ env = [primary |-> TRUE, connect |-> TRUE, market |-> TRUE]
  /\ Ledger0
  /\ faults = MaxDbErr
  /\ ClientIdle

\* the same with a store that may fail once more, so that two steps of one
\* handler can fail
InitFailing ==
  /\ env = [primary |-> TRUE, connect |-> TRUE, market |-> TRUE]
  /\ Ledger0
  /\ faults = MaxDbErr + 1
  /\ ClientIdle

\* the same, under any setting of the three webhook secrets
InitEnv ==
  /\ env \in [primary : BOOLEAN, connect : BOOLEAN, market : BOOLEAN]
  /\ Ledger0
  /\ faults = MaxDbErr
  /\ ClientIdle

\* ================================================================ listings
\* profile page: canSell = Boolean(stripeAccount && stripeVerified)
canSell(u) ==
  profiles[u].stripe_account_id # None /\ profiles[u].stripe_verified

\* the row createListing inserts: an owned asset listed as 'asset' (by asset
\* id) or, in the older page, as 'uploaded_image' (by upload id)
NewListingRow(u, a, kind) ==
  [status |-> "listed", is_active |-> TRUE, buyer_id |-> None, seller_id |-> u,
   source_type |-> kind,
   source_id |-> IF kind = "asset" THEN a ELSE assets[a].source_id]

createListing(u, a, kind, l, err) ==
  /\ assets[a].owner_id = u
  /\ canSell(u)
  /\ listings[l].status = "absent"
  /\ StoreCall(err)
  /\ listings' = IF err THEN listings
                 ELSE [listings EXCEPT ![l] = NewListingRow(u, a, kind)]
  /\ UNCHANGED side
  /\ UNCHANGED <<env, profiles, assets, transactions, payouts, intents, cpi, wh,
                 mixed>>

\* .update({ status: 'inactive', is_active: false }).eq('id', listing.id)
CancelUpdate(row) == [row EXCEPT !.status = "inactive", !.is_active = FALSE]

\* the seller cancels a listing shown in the page's (possibly stale) list
cancelListing(l, err) ==
  /\ listings[l].status # "absent"
  /\ StoreCall(err)
  /\ listings' = IF err THEN listings
                 ELSE [listings EXCEPT ![l] = CancelUpdate(listings[l])]
  /\ mixed' = (mixed \/ (~err /\ Delivered))
  /\ UNCHANGED side
  /\ UNCHANGED <<env, profiles, assets, transactions, payouts, intents, cpi, wh>>

\* ================================================================ checkout
PendingFor(l, b) ==
  {i \in Idx(transactions) :
     /\ transactions[i].listing_id = l
     /\ transactions[i].buyer_id = b
     /\ transactions[i].status = "pending"}

\* .single(): the row when exactly one matches, else null (0)
SingleOpen(l, b) ==
  IF Cardinality(PendingFor(l, b)) = 1
  THEN CHOOSE i \in PendingFor(l, b) : TRUE
  ELSE 0

\* open.stripe_payment_id as selected with the row
OpenPid(open) == IF open = 0 THEN 0 ELSE transactions[open].stripe_payment_id

\* const feeCents = Math.round(amountCents * (Number(platformFeePercent) / 100))
FeeCents(amountCents, pct) == RoundDiv(amountCents * pct, 100)

\* stripeAcct = seller.is_admin ? undefined : seller.stripe_account_id ?? null
StripeAcctOf(seller) ==
  IF profiles[seller].is_admin THEN None ELSE profiles[seller].stripe_account_id

\* mutant: a seller without a connected account is let through
CpiGateAnySeller(user, amountUsd, l, b, errListing, errSeller) ==
  IF ~user THEN "Unauthorized"
  ELSE IF amountUsd = 0 \/ l = None \/ b = None THEN "Missing fields"
  ELSE IF errListing \/ listings[l].status = "absent" THEN "Listing not found"
  ELSE IF errSeller THEN "Seller profile missing"
  ELSE "ok"

\* early returns of the route, lines 19-49; "ok" when none applies
CpiGate(user, amountUsd, l, b, errListing, errSeller) ==
  IF ~user THEN "Unauthorized"
  ELSE IF amountUsd = 0 \/ l = None \/ b = None THEN "Missing fields"
  ELSE IF errListing \/ listings[l].status = "absent" THEN "Listing not found"
  ELSE IF errSeller THEN "Seller profile missing"
  ELSE IF ~profiles[listings[l].seller_id].is_admin
          /\ StripeAcctOf(listings[l].seller_id) = None
       THEN "Seller not connected to Stripe"
  ELSE "ok"

\* lines 15-65: validation, lookups and the read of the open transaction;
\* a lookup can fail only if the route reaches it
cpiLookup(s, user, amountUsd, l, b, pct, errListing, errSeller, errOpen) ==
  LET clean == CpiGate(user, amountUsd, l, b, FALSE, FALSE)
      gate  == CpiGate(user, amountUsd, l, b, errListing, errSeller)
  IN
  /\ cpi[s].pc = "idle"
  /\ \A q \in Calls : q < s => cpi[q].pc # "idle"
  /\ errListing => (clean \notin {"Unauthorized", "Missing fields"}
                    /\ ~errSeller /\ ~errOpen)
  /\ errSeller => (clean \in {"ok", "Seller not connected to Stripe"} /\ ~errOpen)
  /\ errOpen => clean = "ok"
  /\ StoreCall(errListing \/ errSeller \/ errOpen)
  /\ cpi' = [cpi EXCEPT ![s] =
       IF gate # "ok" THEN [IdleCall EXCEPT !.pc = "returned", !.resp = gate]
       ELSE [pc |-> "write", resp |-> "none", listingId |-> l, buyerId |-> b,
             amountCents |-> amountUsd * 100,
             feeCents |-> FeeCents(amountUsd * 100, pct),
             stripeAcct |-> StripeAcctOf(listings[l].seller_id),
             open |-> IF errOpen THEN 0 ELSE SingleOpen(l, b),
             openPid |-> IF errOpen THEN 0 ELSE OpenPid(SingleOpen(l, b)),
             pid |-> 0]]
  /\ UNCHANGED side
  /\ UNCHANGED <<env, profiles, assets, listings, transactions, payouts, intents,
                 wh, mixed>>

\* makePI: the intent stripe.paymentIntents.create returns
MakePI(c) ==
  [status |-> "requires_payment_method",
   amount |-> c.amountCents,
   application_fee_amount |-> IF c.stripeAcct # None THEN <<c.feeCents>> ELSE <<>>,
   mkt_listing_id |-> c.listingId,
   mkt_buyer_id |-> c.buyerId,
   mkt_seller_id |-> listings[c.listingId].seller_id,
   \* metadata keys this route does not set; no checkout session
   kind |-> None, userId |-> None, credits |-> <<>>, usd |-> <<>>, session |-> <<>>]

\* the row inserted for a new intent, lines 108-117
NewTxRow(c, pid) ==
  [listing_id |-> c.listingId, buyer_id |-> c.buyerId, stripe_payment_id |-> pid,
   status |-> "pending", amount_cents |-> c.amountCents,
   platform_fee_cents |-> c.feeCents, seller_acct |-> c.stripeAcct]

\* the update of the open row, lines 95-104
RewriteTxRow(row, c, pid) ==
  [row EXCEPT !.stripe_payment_id = pid, !.seller_acct = c.stripeAcct,
              !.amount_cents = c.amountCents, !.platform_fee_cents = c.feeCents]

\* lines 84-125: reuse the open intent, or create one and write the row;
\* the result of the write is not inspected
cpiWrite(s, err) ==
  LET c == cpi[s]
      reuse == c.open # 0
               /\ intents[c.openPid].status = "requires_payment_method"
      pid == Len(intents) + 1
  IN
  /\ c.pc = "write"
  /\ IF reuse
     THEN /\ ~err
          /\ UNCHANGED <<intents, transactions, dbErrs>>
          /\ cpi' = [cpi EXCEPT ![s] =
               [IdleCall EXCEPT !.pc = "returned", !.resp = "ok",
                                !.listingId = c.listingId, !.buyerId = c.buyerId,
                                !.pid = c.openPid]]
     ELSE /\ StoreCall(err)
          /\ intents' = Append(intents, MakePI(c))
          /\ transactions' =
               IF err THEN transactions
               ELSE IF c.open # 0
                    THEN [transactions EXCEPT ![c.open] = RewriteTxRow(@, c, pid)]
                    ELSE Append(transactions, NewTxRow(c, pid))
          /\ cpi' = [cpi EXCEPT ![s] =
               [IdleCall EXCEPT !.pc = "returned", !.resp = "ok",
                                !.listingId = c.listingId, !.buyerId = c.buyerId,
                                !.pid = pid]]
  /\ mixed' = (mixed \/ (transactions' # transactions /\ Delivered))
  /\ UNCHANGED side
  /\ UNCHANGED <<env, profiles, assets, listings, payouts, wh>>

\* the buyer confirms the payment at the processor, which captures it
confirmPayment(p) ==
  /\ p \in Idx(intents)
  /\ intents[p].status = "requires_payment_method"
  /\ intents' = [intents EXCEPT ![p].status = "succeeded"]
  /\ UNCHANGED side
  /\ UNCHANGED <<env, profiles, assets, listings, transactions, payouts, cpi, wh,
                 dbErrs, mixed>>

\* ================================================================ credits
\* String(n) of a non-negative integer: its decimal digits
RECURSIVE String(_)
String(n) == IF n < 10 THEN <<n>> ELSE Append(String(n \div 10), n % 10)

\* mutant: the pack's dollars are taken for its credits
CreditsOfUsd(usd) == usd

\* const credits = usd * CREDITS_PER_USD
CreditsOf(usd) == usd * CREDITS_PER_USD

\* unit_amount: usd * 100
UnitAmount(usd) == usd * 100

\* metadata: { kind, userId, credits: String(credits), usd: String(usd) }
CreditsMetadata(u, usd) ==
  [kind |-> "credits_purchase", userId |-> u, credits |-> String(CreditsOf(usd)),
   usd |-> String(usd)]

\* the checkout session stripe.checkout.sessions.create returns, held as the
\* payment intent it collects with: the session carries the metadata, and
\* the intent carries it too when payment_intent_data.metadata is set
\* (piMeta, the second version of the route)
CreditsSession(u, usd, piMeta) ==
  LET md == CreditsMetadata(u, usd) IN
  [status |-> "requires_payment_method",
   amount |-> UnitAmount(usd),
   application_fee_amount |-> <<>>,
   mkt_listing_id |-> None, mkt_buyer_id |-> None, mkt_seller_id |-> None,
   kind |-> IF piMeta THEN md.kind ELSE None,
   userId |-> IF piMeta THEN md.userId ELSE None,
   credits |-> IF piMeta THEN md.credits ELSE <<>>,
   usd |-> IF piMeta THEN md.usd ELSE <<>>,
   session |-> <<md>>]

\* mutant: any amount of dollars is taken for a pack
CreditsGateAnyPack(u, usd) ==
  IF u = None THEN "Not authenticated" ELSE "ok"

\* early returns of the credits checkout route; "ok" when none applies
CreditsGate(u, usd) ==
  IF u = None THEN "Not authenticated"
  ELSE IF usd \notin ALLOWED_PACKS THEN "Invalid pack"
  ELSE "ok"

\* POST /api/credits/checkout; fail: stripe.checkout.sessions.create throws
\* and the catch answers 500
creditsCheckout(k, u, usd, piMeta, fail) ==
  LET gate == CreditsGate(u, usd)
      pid  == Len(intents) + 1
  IN
  /\ cco[k].pc = "idle"
  /\ \A q \in CcoCalls : q < k => cco[q].pc # "idle"
  /\ fail => gate = "ok"
  /\ IF gate = "ok" /\ ~fail
     THEN /\ intents' = Append(intents, CreditsSession(u, usd, piMeta))
          /\ cco' = [cco EXCEPT ![k] =
               [pc |-> "returned", resp |-> "url", user |-> u, usd |-> usd,
                pid |-> pid]]
     ELSE /\ UNCHANGED intents
          /\ cco' = [cco EXCEPT ![k] =
               [pc |-> "returned",
                resp |-> IF gate = "ok" THEN "Checkout error" ELSE gate,
                user |-> u, usd |-> usd, pid |-> 0]]
  /\ UNCHANGED <<env, profiles, assets, listings, transactions, payouts, cpi, wh,
                 dbErrs, mixed, ledger, accounts, onb, now, rest>>

\* ================================================================ webhook
\* mutant: any signature header that is present passes
constructEventAnySigned(sig, secret) == sig # "missing"

\* stripe.webhooks.constructEvent(rawBody, sig, secret): the signature header
\* verifies exactly under the secret it was computed with
constructEvent(sig, secret) == sig = secret

\* mutant: a failure under the primary secret rejects at once
VerifyBothNoFallback(sig) ==
  IF ~env.primary /\ ~env.connect THEN [status |-> "500", tried |-> <<>>]
  ELSE IF env.primary
       THEN IF constructEvent(sig, "primary")
            THEN [status |-> "ok", tried |-> <<"primary">>]
            ELSE [status |-> "400", tried |-> <<"primary">>]
       ELSE IF constructEvent(sig, "connect")
            THEN [status |-> "ok", tried |-> <<"connect">>]
            ELSE [status |-> "400", tried |-> <<"connect">>]

\* first route, lines 179-202: primary first, then connect.
\* Result: the outcome and the secrets tried, in order
VerifyBoth(sig) ==
  IF ~env.primary /\ ~env.connect THEN [status |-> "500", tried |-> <<>>]
  ELSE IF env.primary /\ constructEvent(sig, "primary")
       THEN [status |-> "ok", tried |-> <<"primary">>]
  ELSE LET t == IF env.primary THEN <<"primary">> ELSE <<>> IN
       IF ~env.connect THEN [status |-> "400", tried |-> t]
       ELSE IF constructEvent(sig, "connect")
            THEN [status |-> "ok", tried |-> Append(t, "connect")]
            ELSE [status |-> "400", tried |-> Append(t, "connect")]

\* second route, lines 346-360:
\* secret = STRIPE_WEBHOOK_SECRET_MARKET || STRIPE_WEBHOOK_SECRET
VerifyMarket(sig) ==
  LET secret == IF env.market THEN "market"
                ELSE IF env.primary THEN "primary" ELSE None
  IN IF secret = None THEN [status |-> "500", tried |-> <<>>]
     ELSE IF constructEvent(sig, secret)
          THEN [status |-> "ok", tried |-> <<secret>>]
          ELSE [status |-> "400", tried |-> <<secret>>]

\* the route that grants credits verifies with the two secrets as well
Verify(ver, sig) == IF ver = "market" THEN VerifyMarket(sig) ELSE VerifyBoth(sig)

\* mutant: the response is built only after the detached work
AckAfterWork(status) == IF status = "ok" THEN "none" ELSE status

\* const ack = NextResponse.json({ received: true }), built before the
\* detached task is started; an error status otherwise
Ack(status) == IF status = "ok" THEN "ack" ELSE status

\* mutant: no event starts the sale handler
DispatchNothing(ver, type, p, o) == "done"

\* mutant: the second route handles account events as the first does
DispatchAccountsEverywhere(ver, type, p, o) ==
  IF type = "payment_intent.succeeded"
  THEN IF intents[p].mkt_listing_id = None \/ intents[p].mkt_buyer_id = None
       THEN "done" ELSE "tx1"
  ELSE IF type \in AccountEvents
       THEN IF o.user_id # None THEN "acctUpsert" ELSE "acctUpdate"
  ELSE "done"

\* mutant: a succeeded intent is handled as a sale whatever its metadata
DispatchAnyIntent(ver, type, p, o) ==
  IF type = "payment_intent.succeeded" THEN "tx1"
  ELSE IF type \in AccountEvents /\ ver # "market"
       THEN IF o.user_id # None THEN "acctUpsert" ELSE "acctUpdate"
  ELSE "done"

\* where the detached task stands after its synchronous part: the handler of
\* a succeeded intent with listing and buyer metadata waits on its first
\* store call; the first route hands account events to markSellerReadiness,
\* which upserts first when the account names its user; every other event
\* type is ignored
Dispatch(ver, type, p, o) ==
  IF type = "payment_intent.succeeded"
  THEN IF intents[p].mkt_listing_id = None \/ intents[p].mkt_buyer_id = None
       THEN "done" ELSE "tx1"
  ELSE IF type \in AccountEvents /\ ver # "market"
       THEN IF o.user_id # None THEN "acctUpsert" ELSE "acctUpdate"
  ELSE "done"

\* the data.object the processor sends with an account event: the account as
\* it is for account.updated; a capability or an application, which has
\* neither the account's id nor its flags nor its metadata, for the others
EventObjects(type) ==
  IF type = "account.updated"
  THEN {[id |-> a, user_id |-> accounts[a].user_id,
         charges_enabled |-> accounts[a].charges_enabled,
         payouts_enabled |-> accounts[a].payouts_enabled,
         currently_due |-> accounts[a].currently_due] :
          a \in {x \in AcctIds : accounts[x].exists}}
  ELSE {[NoObj EXCEPT !.id = "object", !.currently_due = d] : d \in {"absent", "due"}}

\* the route of the credits release, whose source is not part of src/: a
\* completed checkout session is always a credits purchase; a succeeded
\* intent is one when its metadata says so, and a marketplace sale otherwise
DispatchCredits(type, p, o) ==
  IF type = "checkout.session.completed" THEN "ledger"
  ELSE IF type = "payment_intent.succeeded" /\ intents[p].kind = "credits_purchase"
       THEN "ledger"
  ELSE Dispatch("both", type, p, o)

Route(ver, type, p, o) ==
  IF ver = "credits" THEN DispatchCredits(type, p, o) ELSE Dispatch(ver, type, p, o)

\* the route up to `return ack`: verify, build the acknowledgement, start the
\* detached task.  The processor signs only events that happened; anyone else
\* can send any payload but cannot sign it
POST(r, ver, sig, type, p, o) ==
  LET v == Verify(ver, sig) IN
  /\ wh[r].pc = "new"
  /\ \A q \in Reqs : q < r => wh[q].pc # "new"
  /\ IF type \in {"payment_intent.succeeded", "checkout.session.completed"}
     THEN /\ p \in Idx(intents)
          /\ sig \in Secrets => intents[p].status = "succeeded"
          /\ type = "checkout.session.completed" => intents[p].session # <<>>
     ELSE p = 0
  /\ IF type \in AccountEvents /\ sig \in Secrets
     THEN o \in EventObjects(type) ELSE o = NoObj
  /\ wh' = [wh EXCEPT ![r] =
       IF v.status = "ok"
       THEN [NewReq EXCEPT !.ver = ver, !.sig = sig, !.tried = v.tried,
                           !.type = type, !.pi = p, !.obj = o, !.at = now,
                           !.resp = Ack(v.status), !.pc = Route(ver, type, p, o)]
       ELSE [NewReq EXCEPT !.ver = ver, !.sig = sig, !.tried = v.tried,
                           !.resp = Ack(v.status), !.pc = "rejected"]]
  /\ UNCHANGED side
  /\ UNCHANGED <<env, profiles, assets, listings, transactions, payouts, intents,
                 cpi, dbErrs, mixed>>

\* mutant: the fee is recomputed from the default percent
PlatformFeeCentsRecomputed(pi) == FeeCents(pi.amount, 5)

\* const platformFeeCents = Number(pi.application_fee_amount ?? 0)
PlatformFeeCents(pi) ==
  IF pi.application_fee_amount = <<>> THEN 0 ELSE pi.application_fee_amount[1]

\* const netCents = Math.max(0, amountCents - platformFeeCents)
NetCents(pi) == Max(0, pi.amount - PlatformFeeCents(pi))

\* rows .eq("stripe_payment_id", stripeId) selects
MatchByStripeId(p) ==
  {i \in Idx(transactions) : transactions[i].stripe_payment_id = p}

\* .update({ status: "completed" }).eq("stripe_payment_id", stripeId)
CompleteByStripeId(p) ==
  [i \in Idx(transactions) |->
     IF i \in MatchByStripeId(p)
     THEN [transactions[i] EXCEPT !.status = "completed"]
     ELSE transactions[i]]

\* mutant: the fallback completes the row but does not stamp the payment id
CompleteFallbackNoStamp(p, l, b) ==
  [i \in Idx(transactions) |->
     IF i \in PendingFor(l, b)
     THEN [transactions[i] EXCEPT !.status = "completed"]
     ELSE transactions[i]]

\* .update({ status: "completed", stripe_payment_id: stripeId })
\*   .eq("listing_id").eq("buyer_id").eq("status", "pending")
CompleteFallback(p, l, b) ==
  [i \in Idx(transactions) |->
     IF i \in PendingFor(l, b)
     THEN [transactions[i] EXCEPT !.status = "completed", !.stripe_payment_id = p]
     ELSE transactions[i]]

\* step 1: complete the transaction by payment id
completeTxByStripeId(r, err) ==
  LET h == wh[r]  p == h.pi IN
  /\ h.pc = "tx1"
  /\ StoreCall(err)
  /\ transactions' = IF err THEN transactions ELSE CompleteByStripeId(p)
  \* if (!tx1?.length): tx1 is null after an error
  /\ wh' = [wh EXCEPT ![r].pc =
       IF err \/ MatchByStripeId(p) = {} THEN "tx2" ELSE "list"]
  /\ UNCHANGED side
  /\ UNCHANGED <<env, profiles, assets, listings, payouts, intents, cpi, mixed>>

\* mutant: a failed fallback update ends the handler
completeTxFallbackAborts(r, err) ==
  LET h == wh[r]  pi == intents[h.pi] IN
  /\ h.pc = "tx2"
  /\ StoreCall(err)
  /\ transactions' =
       IF err THEN transactions
       ELSE CompleteFallback(h.pi, pi.mkt_listing_id, pi.mkt_buyer_id)
  /\ wh' = [wh EXCEPT ![r].pc = IF err THEN "done" ELSE "list"]
  /\ UNCHANGED side
  /\ UNCHANGED <<env, profiles, assets, listings, payouts, intents, cpi, mixed>>

\* step 1, fallback: complete the pending row of (listing, buyer)
completeTxFallback(r, err) ==
  LET h == wh[r]  pi == intents[h.pi] IN
  /\ h.pc = "tx2"
  /\ StoreCall(err)
  /\ transactions' =
       IF err THEN transactions
       ELSE CompleteFallback(h.pi, pi.mkt_listing_id, pi.mkt_buyer_id)
  /\ wh' = [wh EXCEPT ![r].pc = "list"]
  /\ UNCHANGED side
  /\ UNCHANGED <<env, profiles, assets, listings, payouts, intents, cpi, mixed>>

\* mutant: the sold update leaves is_active alone
SoldUpdateKeepsActive(row, b) == [row EXCEPT !.buyer_id = b, !.status = "sold"]

\* .update({ buyer_id, status: "sold", is_active: false }).eq("id", listingId)
SoldUpdate(row, b) ==
  [row EXCEPT !.buyer_id = b, !.status = "sold", !.is_active = FALSE]

\* the payout guards that run without a store call:
\* first route `if (!sellerId || !netCents || netCents <= 0) return`,
\* second route `if (!sellerId) return`
PayoutWanted(ver, pi) ==
  /\ pi.mkt_seller_id # None
  /\ ver # "market" => NetCents(pi) > 0

\* step 2: mark the listing sold
markListingSold(r, err) ==
  LET h == wh[r]  pi == intents[h.pi]  l == pi.mkt_listing_id IN
  /\ h.pc = "list"
  /\ StoreCall(err)
  /\ listings' = IF err \/ listings[l].status = "absent" THEN listings
                 ELSE [listings EXCEPT ![l] = SoldUpdate(listings[l], pi.mkt_buyer_id)]
  /\ wh' = [wh EXCEPT ![r].pc =
       IF h.ver # "market" THEN "xferRead"
       ELSE IF PayoutWanted(h.ver, pi) THEN "sellerRead" ELSE "done"]
  /\ UNCHANGED side
  /\ UNCHANGED <<env, profiles, assets, transactions, payouts, intents, cpi,
                 mixed>>

\* step 3a: transferAssetToBuyer reads the listing's source fields
transferAssetRead(r, err) ==
  LET h == wh[r]  pi == intents[h.pi]  l == pi.mkt_listing_id
      found == ~err /\ listings[l].status # "absent"
  IN
  /\ h.pc = "xferRead"
  /\ StoreCall(err)
  /\ wh' = [wh EXCEPT ![r] =
       IF found
       THEN [h EXCEPT !.pc = "xferWrite",
                      !.src = <<listings[l].source_type, listings[l].source_id>>]
       ELSE [h EXCEPT !.pc = IF PayoutWanted(h.ver, pi) THEN "sellerRead" ELSE "done"]]
  /\ UNCHANGED side
  /\ UNCHANGED <<env, profiles, assets, listings, transactions, payouts, intents,
                 cpi, mixed>>

\* the asset rows the owner update is filtered to
AssetsOfSource(src) ==
  IF src[1] = "asset"
  THEN {a \in AssetIds : a = src[2]}
  ELSE {a \in AssetIds : assets[a].source_type = "uploaded_image"
                         /\ assets[a].source_id = src[2]}

\* mutant: only listings of source_type 'asset' transfer their asset
TransferOwnerAssetOnly(src, b) ==
  [a \in AssetIds |->
     IF src[1] = "asset" /\ a = src[2] THEN [assets[a] EXCEPT !.owner_id = b]
     ELSE assets[a]]

\* .update({ owner_id: buyerId }) on those rows
TransferOwner(src, b) ==
  [a \in AssetIds |->
     IF a \in AssetsOfSource(src) THEN [assets[a] EXCEPT !.owner_id = b]
     ELSE assets[a]]

\* step 3b: transferAssetToBuyer writes the new owner
transferAssetWrite(r, err) ==
  LET h == wh[r]  pi == intents[h.pi] IN
  /\ h.pc = "xferWrite"
  /\ StoreCall(err)
  /\ assets' = IF err THEN assets ELSE TransferOwner(h.src, pi.mkt_buyer_id)
  /\ wh' = [wh EXCEPT ![r].pc =
       IF PayoutWanted(h.ver, pi) THEN "sellerRead" ELSE "done"]
  /\ UNCHANGED side
  /\ UNCHANGED <<env, profiles, listings, transactions, payouts, intents, cpi,
                 mixed>>

\* step 4a: read the seller's connected account
queuePayoutRead(r, err) ==
  LET h == wh[r]  pi == intents[h.pi]
      acct == profiles[pi.mkt_seller_id].stripe_account_id
  IN
  /\ h.pc = "sellerRead"
  /\ StoreCall(err)
  /\ wh' = [wh EXCEPT ![r] =
       IF err \/ acct = None THEN [h EXCEPT !.pc = "done"]
       ELSE [h EXCEPT !.pc = "payIns", !.acct = acct,
                      !.when = now + PayoutDelayMin]]
  /\ UNCHANGED side
  /\ UNCHANGED <<env, profiles, assets, listings, transactions, payouts, intents,
                 cpi, mixed>>

\* mutant: the payout is scheduled for the moment it is queued
PayoutRowAtOnce(l, acct, netCents, when) ==
  [listing_id |-> l, stripe_account_id |-> acct, amount_cents |-> netCents,
   scheduled_at |-> when - PayoutDelayMin, status |-> "pending"]

\* the row queuePayoutIfPossible inserts
PayoutRow(l, acct, netCents, when) ==
  [listing_id |-> l, stripe_account_id |-> acct, amount_cents |-> netCents,
   scheduled_at |-> when, status |-> "pending"]

\* step 4b: insert the payout row
queuePayoutInsert(r, err) ==
  LET h == wh[r]  pi == intents[h.pi] IN
  /\ h.pc = "payIns"
  /\ StoreCall(err)
  /\ payouts' = IF err THEN payouts
                ELSE Append(payouts, PayoutRow(pi.mkt_listing_id, h.acct, NetCents(pi),
                                                  h.when))
  /\ wh' = [wh EXCEPT ![r].pc = "done"]
  /\ UNCHANGED side
  /\ UNCHANGED <<env, profiles, assets, listings, transactions, intents, cpi,
                 mixed>>

\* Date.now(): a minute passes between two awaited calls
Tick ==
  /\ now < MaxNow
  /\ now' = now + 1
  /\ UNCHANGED <<env, db, intents, cpi, wh, dbErrs, mixed, cco, accounts, onb,
                 rest>>

\* ================================================================ seller readiness
\* mutant: outstanding requirements are not looked at
VerifiedIgnoresDue(o) == o.charges_enabled /\ o.payouts_enabled

\* const verified = acct.charges_enabled === true && acct.payouts_enabled === true
\*   && ((acct.requirements?.currently_due ?? []).length === 0)
Verified(o) ==
  /\ o.charges_enabled
  /\ o.payouts_enabled
  /\ o.currently_due \in {"absent", "empty"}

\* upsert({ id, email: null, stripe_account_id, stripe_verified, is_seller },
\*        { onConflict: "id" }) on the row of that id
UpsertReadiness(row, o) ==
  [row EXCEPT !.email = None, !.stripe_account_id = o.id,
              !.stripe_verified = Verified(o), !.is_seller = Verified(o)]

\* update({ stripe_verified, is_seller }).eq("stripe_account_id", acct.id)
UpdateReadiness(o) ==
  [u \in Users |->
     IF profiles[u].stripe_account_id = o.id
     THEN [profiles[u] EXCEPT !.stripe_verified = Verified(o),
                              !.is_seller = Verified(o)]
     ELSE profiles[u]]

\* markSellerReadiness, first store call (when the account names its user)
markSellerUpsert(r, err) ==
  LET h == wh[r] IN
  /\ h.pc = "acctUpsert"
  /\ StoreCall(err)
  /\ profiles' = IF err THEN profiles
                 ELSE [profiles EXCEPT ![h.obj.user_id] = UpsertReadiness(@, h.obj)]
  /\ wh' = [wh EXCEPT ![r].pc = "acctUpdate"]
  /\ UNCHANGED <<env, assets, listings, transactions, payouts, intents, cpi,
                 mixed, ledger, cco, accounts, onb, now, rest>>

\* markSellerReadiness, second store call
markSellerUpdate(r, err) ==
  LET h == wh[r] IN
  /\ h.pc = "acctUpdate"
  /\ StoreCall(err)
  /\ profiles' = IF err THEN profiles ELSE UpdateReadiness(h.obj)
  /\ wh' = [wh EXCEPT ![r].pc = "done"]
  /\ UNCHANGED <<env, assets, listings, transactions, payouts, intents, cpi,
                 mixed, ledger, cco, accounts, onb, now, rest>>

\* the processor changes what an account may do, as its holder supplies
\* details or new requirements fall due
accountChanges(a, ce, pe, due) ==
  /\ accounts[a].exists
  /\ accounts' = [accounts EXCEPT ![a].charges_enabled = ce,
                                  ![a].payouts_enabled = pe,
                                  ![a].currently_due = due]
  /\ accounts' # accounts
  /\ UNCHANGED <<env, profiles, assets, listings, transactions, payouts, intents,
                 cpi, wh, dbErrs, mixed, ledger, cco, onb, now, rest>>

\* the account is deleted at the processor
accountRemoved(a) ==
  /\ accounts[a].exists
  /\ accounts' = [accounts EXCEPT ![a] = NoAccount]
  /\ UNCHANGED <<env, profiles, assets, listings, transactions, payouts, intents,
                 cpi, wh, dbErrs, mixed, ledger, cco, onb, now, rest>>

\* ================================================================ onboarding
\* POST /api/stripe/onboard, in its two versions: "retrieve" looks the stored
\* account up at the processor, "link" (the earlier one) does not.
\* Up to the profile read: the read's error is not looked at
onboardRead(k, ver, u, err) ==
  LET accountId == IF err THEN None ELSE profiles[u].stripe_account_id IN
  /\ onb[k].pc = "idle"
  /\ \A q \in OnbCalls : q < k => onb[q].pc # "idle"
  /\ err => u # None
  /\ StoreCall(err)
  /\ onb' = [onb EXCEPT ![k] =
       IF u = None
       THEN [IdleOnboard EXCEPT !.pc = "returned", !.resp = "Unauthorized", !.ver = ver]
       ELSE IF accountId = None
       THEN [IdleOnboard EXCEPT !.pc = "create", !.ver = ver, !.user = u]
       ELSE IF ver = "retrieve"
       THEN [IdleOnboard EXCEPT !.pc = "retrieve", !.ver = ver, !.user = u,
                                !.accountId = accountId]
       ELSE [IdleOnboard EXCEPT !.pc = "returned", !.resp = "onboarding",
                                !.ver = ver, !.user = u, !.accountId = accountId]]
  /\ UNCHANGED <<env, profiles, assets, listings, transactions, payouts, intents,
                 cpi, wh, mixed, ledger, cco, accounts, now, rest>>

\* needsOnboarding, lines 39-42
NeedsOnboarding(acct) ==
  \/ acct.currently_due = "due"
  \/ ~acct.charges_enabled
  \/ ~acct.payouts_enabled

\* stripe.accounts.retrieve(accountId) and the link that follows; a throw
\* (the account is gone) leads on to the creation of a fresh account
onboardRetrieve(k) ==
  LET c == onb[k]  acct == accounts[c.accountId] IN
  /\ c.pc = "retrieve"
  /\ onb' = [onb EXCEPT ![k] =
       IF ~acct.exists THEN [c EXCEPT !.pc = "create", !.accountId = None]
       ELSE [c EXCEPT !.pc = "returned",
                      !.resp = IF NeedsOnboarding(acct) THEN "onboarding"
                               ELSE "dashboard"]]
  /\ UNCHANGED <<env, profiles, assets, listings, transactions, payouts, intents,
                 cpi, wh, dbErrs, mixed, ledger, cco, accounts, now, rest>>

\* the ids of the accounts the processor has created so far
CreatedIds == {i \in DOMAIN AcctNames :
                 \E q \in OnbCalls : onb[q].created = AcctNames[i]}

\* the account stripe.accounts.create returns: metadata { user_id }
NewAccount(u) ==
  [exists |-> TRUE, user_id |-> u, charges_enabled |-> FALSE,
   payouts_enabled |-> FALSE, currently_due |-> "due"]

\* stripe.accounts.create
onboardCreate(k) ==
  LET c == onb[k]  id == AcctNames[Cardinality(CreatedIds) + 1] IN
  /\ c.pc = "create"
  /\ accounts' = [accounts EXCEPT ![id] = NewAccount(c.user)]
  /\ onb' = [onb EXCEPT ![k] = [c EXCEPT !.pc = "upsert", !.accountId = id,
                                        !.created = id]]
  /\ UNCHANGED <<env, profiles, assets, listings, transactions, payouts, intents,
                 cpi, wh, dbErrs, mixed, ledger, cco, now, rest>>

\* upsert({ id, email, stripe_account_id, stripe_verified: false })
UpsertOnboarded(row, id) ==
  [row EXCEPT !.email = "mail", !.stripe_account_id = id, !.stripe_verified = FALSE]

\* the profile upsert, whose result is not looked at, and the onboarding link
onboardUpsert(k, err) ==
  LET c == onb[k] IN
  /\ c.pc = "upsert"
  /\ StoreCall(err)
  /\ profiles' = IF err THEN profiles
                 ELSE [profiles EXCEPT ![c.user] = UpsertOnboarded(@, c.accountId)]
  /\ onb' = [onb EXCEPT ![k] = [c EXCEPT !.pc = "returned", !.resp = "onboarding"]]
  /\ UNCHANGED <<env, assets, listings, transactions, payouts, intents, cpi, wh,
                 mixed, ledger, cco, accounts, now, rest>>

\* ================================================================ guest quota
\* the decimal strings of at most MaxRaw digits
RECURSIVE DigitSeqs(_)
DigitSeqs(n) ==
  IF n = 0 THEN {<<>>}
  ELSE DigitSeqs(n - 1) \cup {Append(d, c) : d \in DigitSeqs(n - 1), c \in 0..9}

\* what local storage may hold under KEY
Entries ==
  {NoEntry} \cup
  [avail : BOOLEAN, present : {TRUE}, neg : BOOLEAN, digits : DigitSeqs(MaxRaw),
   tail : BOOLEAN]

RECURSIVE Radix10(_)
Radix10(d) ==
  IF Len(d) = 0 THEN 0 ELSE 10 * Radix10(SubSeq(d, 1, Len(d) - 1)) + d[Len(d)]

\* parseInt(raw, 10): <<n>>, or <<>> for NaN when no digit leads
parseInt(raw) ==
  IF raw.digits = <<>> THEN <<>>
  ELSE IF raw.neg THEN <<0 - Radix10(raw.digits)>> ELSE <<Radix10(raw.digits)>>

\* raw ? parseInt(raw, 10) : 0 -- null and the empty string are falsy
getGuestCount ==
  IF ~storage.avail THEN 0
  ELSE IF ~storage.present THEN 0
  ELSE IF storage.digits = <<>> /\ ~storage.neg /\ ~storage.tail THEN 0
  ELSE LET n == parseInt(storage) IN
       IF n # <<>> /\ n[1] >= 0 THEN n[1] ELSE 0

\* Math.max(FREE_LIMIT - getGuestCount(), 0)
getRemaining == Max(FREE_LIMIT - getGuestCount, 0)

canCreateMore == getGuestCount < FREE_LIMIT

Min(a, b) == IF a <= b THEN a ELSE b

\* String(Math.min(Math.max(n, 0), FREE_LIMIT)) as stored
Clamped(n) ==
  [avail |-> TRUE, present |-> TRUE, neg |-> FALSE,
   digits |-> String(Min(Max(n, 0), FREE_LIMIT)), tail |-> FALSE]

Others == <<env, db, intents, cpi, wh, dbErrs, mixed, cco, accounts, onb, now,
            faults, uploads>>

\* setItem throws when the storage is unavailable, and the catch is empty
setGuestCount(n) ==
  /\ storage' = IF storage.avail THEN Clamped(n) ELSE storage
  /\ UNCHANGED Others

incrementGuestCreation ==
  /\ storage' = IF getGuestCount < FREE_LIMIT /\ storage.avail
                 THEN Clamped(getGuestCount + 1) ELSE storage
  /\ UNCHANGED Others

resetGuestQuota ==
  /\ storage' = IF storage.avail THEN NoEntry ELSE storage
  /\ UNCHANGED Others

\* ================================================================ credits grant
\* Number(str) of a string of decimal digits
RECURSIVE Number(_)
Number(d) ==
  IF Len(d) = 0 THEN 0
  ELSE 10 * Number(SubSeq(d, 1, Len(d) - 1)) + d[Len(d)]

\* the metadata the grant reads: the session's for a completed checkout
\* session, the intent's for a succeeded intent
GrantOf(h) ==
  IF h.type = "checkout.session.completed" THEN intents[h.pi].session[1]
  ELSE [kind |-> intents[h.pi].kind, userId |-> intents[h.pi].userId,
        credits |-> intents[h.pi].credits, usd |-> intents[h.pi].usd]

LedgerOf(p) == {i \in Idx(ledger) : ledger[i].payment_intent = p}

LedgerRow(h) ==
  [user_id |-> GrantOf(h).userId, payment_intent |-> h.pi,
   amount_cents |-> intents[h.pi].amount, credits |-> Number(GrantOf(h).credits),
   reason |-> "purchase"]

\* step 1: insert the ledger row, unique on the payment id; a duplicate key
\* means the credits were granted already
grantLedgerInsert(r, err) ==
  LET h == wh[r]  dup == LedgerOf(h.pi) # {} IN
  /\ h.pc = "ledger"
  /\ StoreCall(err)
  /\ ledger' = IF err \/ dup THEN ledger ELSE Append(ledger, LedgerRow(h))
  /\ wh' = [wh EXCEPT ![r].pc = IF err \/ dup THEN "done" ELSE "incr"]
  /\ UNCHANGED <<env, profiles, assets, listings, transactions, payouts, intents,
                 cpi, mixed, cco, accounts, onb, now, rest>>

AddCredits(u, n) == [profiles EXCEPT ![u].credits = @ + n]

\* step 2: the atomic increment of the balance, when the store offers it
grantIncrement(r, avail, err) ==
  LET h == wh[r]  g == GrantOf(h) IN
  /\ h.pc = "incr"
  /\ StoreCall(err)
  /\ profiles' = IF avail /\ ~err THEN AddCredits(g.userId, Number(g.credits))
                 ELSE profiles
  /\ wh' = [wh EXCEPT ![r].pc = IF avail \/ err THEN "done" ELSE "balRead"]
  /\ UNCHANGED <<env, assets, listings, transactions, payouts, intents, cpi,
                 mixed, ledger, cco, accounts, onb, now, rest>>

\* step 2, fallback: read the balance ...
grantBalanceRead(r, err) ==
  LET h == wh[r]  g == GrantOf(h) IN
  /\ h.pc = "balRead"
  /\ StoreCall(err)
  /\ wh' = [wh EXCEPT ![r] =
       IF err THEN [h EXCEPT !.pc = "done"]
       ELSE [h EXCEPT !.pc = "balWrite", !.bal = profiles[g.userId].credits]]
  /\ UNCHANGED <<env, profiles, assets, listings, transactions, payouts, intents,
                 cpi, mixed, ledger, cco, accounts, onb, now, rest>>

\* ... and write the sum
grantBalanceWrite(r, err) ==
  LET h == wh[r]  g == GrantOf(h) IN
  /\ h.pc = "balWrite"
  /\ StoreCall(err)
  /\ profiles' = IF err THEN profiles
                 ELSE [profiles EXCEPT ![g.userId].credits = h.bal + Number(g.credits)]
  /\ wh' = [wh EXCEPT ![r].pc = "done"]
  /\ UNCHANGED <<env, assets, listings, transactions, payouts, intents, cpi,
                 mixed, ledger, cco, accounts, onb, now, rest>>

\* ================================================================ system
\* every operation of the program, under a setting c of its surroundings:
\*   c.errs   the outcomes a store call may have (TRUE = the call fails)
\*   c.posts  the (route, signing key) pairs of the webhook requests arriving
\*   c.blank  whether checkout requests may lack a session or a field
\*   c.buyers the users who check out
\*   c.amts   the amounts (in dollars) checkout requests carry
\*   c.pcts   the platformFeePercent values checkout requests carry
\*   c.sessions the checkout calls that are made
\*   c.types  the types of the events the webhook receives
Post(c) ==
  \E r \in Reqs, vs \in c.posts, t \in c.types, p \in {0} \cup PIds :
     \E o \in {NoObj} \cup EventObjects(t) : POST(r, vs[1], vs[2], t, p, o)

ListingOps(c) ==
  \/ \E u \in Users, a \in AssetIds, k \in {"asset", "uploaded_image"},
        l \in ListingIds, err \in c.errs : createListing(u, a, k, l, err)
  \/ \E l \in ListingIds, err \in c.errs : cancelListing(l, err)

CpiOps(c) ==
  \/ \E s \in c.sessions,
        user \in (IF c.blank THEN BOOLEAN ELSE {TRUE}),
        amt \in (IF c.blank THEN {0} ELSE {}) \cup c.amts,
        l \in (IF c.blank THEN {None} ELSE {}) \cup ListingIds,
        b \in (IF c.blank THEN {None} ELSE {}) \cup c.buyers,
        pct \in c.pcts, e1 \in c.errs, e2 \in c.errs, e3 \in c.errs :
        cpiLookup(s, user, amt, l, b, pct, e1, e2, e3)
  \/ \E s \in c.sessions, err \in c.errs : cpiWrite(s, err)

PayOps == \E p \in PIds : confirmPayment(p)

SaleOps(c) ==
  \/ \E r \in Reqs, err \in c.errs : completeTxByStripeId(r, err)
  \/ \E r \in Reqs, err \in c.errs : completeTxFallback(r, err)
  \/ \E r \in Reqs, err \in c.errs : markListingSold(r, err)
  \/ \E r \in Reqs, err \in c.errs : transferAssetRead(r, err)
  \/ \E r \in Reqs, err \in c.errs : transferAssetWrite(r, err)
  \/ \E r \in Reqs, err \in c.errs : queuePayoutRead(r, err)
  \/ \E r \in Reqs, err \in c.errs : queuePayoutInsert(r, err)

Sys(c) ==
  \/ ListingOps(c)
  \/ CpiOps(c)
  \/ PayOps
  \/ Post(c)
  \/ SaleOps(c)

AllPosts == {"both", "market"} \X SigKeys
SignedPosts == {<<"both", "primary">>, <<"market", "market">>}

\* two buyers and redelivered, interleaved webhook events; the store answers
Next == Sys([errs |-> {FALSE}, posts |-> SignedPosts, blank |-> FALSE, types |-> EventTypes,
             buyers |-> Buyers, amts |-> AmountsUsd, pcts |-> {5}, sessions |-> Sessions])

Spec == Init /\ [][Next]_vars

\* one buyer; store calls may fail, any fee percent
NextFaulty == Sys([errs |-> BOOLEAN, posts |-> SignedPosts, blank |-> FALSE, types |-> EventTypes,
                   buyers |-> {"b1"}, amts |-> AmountsUsd, pcts |-> FeePercents, sessions |-> Sessions])

SpecFaulty == Init /\ [][NextFaulty]_vars

\* one checkout; any secrets configured, any request signed or not
NextEnv == Sys([errs |-> BOOLEAN, posts |-> AllPosts, blank |-> FALSE, types |-> EventTypes,
                buyers |-> {"b1"}, amts |-> AmountsUsd, pcts |-> {5}, sessions |-> {1}])

SpecEnv == InitEnv /\ [][NextEnv]_vars

\* the credits checkout of callers c.users asking for packs c.usds
CheckoutOps(c) ==
  \E k \in c.calls, u \in c.users, usd \in c.usds, m \in BOOLEAN,
     f \in c.fails : creditsCheckout(k, u, usd, m, f)

\* the handler steps of the credits release
CreditsOps(errs) ==
  \/ \E r \in Reqs, err \in errs : grantLedgerInsert(r, err)
  \/ \E r \in Reqs, avail \in BOOLEAN, err \in errs : grantIncrement(r, avail, err)
  \/ \E r \in Reqs, err \in errs : grantBalanceRead(r, err)
  \/ \E r \in Reqs, err \in errs : grantBalanceWrite(r, err)

\* the marketplace checkouts and the credits purchases of one user
NextCredits ==
  \/ Sys([errs |-> {FALSE}, posts |-> {<<"credits", "primary">>}, blank |-> FALSE,
          types |-> {"payment_intent.succeeded", "checkout.session.completed"},
          buyers |-> {"b1"}, amts |-> AmountsUsd, pcts |-> {5}, sessions |-> Sessions])
  \/ CheckoutOps([calls |-> {1}, users |-> {"b1"}, usds |-> {20}, fails |-> {FALSE}])
  \/ CreditsOps({FALSE})

SpecCredits == Init /\ [][NextCredits]_vars

\* onboarding calls of c.users (None: no session) through the versions c.vers
OnboardOps(c) ==
  \/ \E k \in OnbCalls, v \in c.vers, u \in c.users, err \in c.errs :
        onboardRead(k, v, u, err)
  \/ \E k \in OnbCalls : onboardRetrieve(k)
  \/ \E k \in OnbCalls : onboardCreate(k)
  \/ \E k \in OnbCalls, err \in c.errs : onboardUpsert(k, err)

\* what the processor does to accounts
AccountOps(c) ==
  \E a \in c.accts, ce \in BOOLEAN, pe \in BOOLEAN, due \in c.dues :
     accountChanges(a, ce, pe, due)

ReadinessOps(errs) ==
  \/ \E r \in Reqs, err \in errs : markSellerUpsert(r, err)
  \/ \E r \in Reqs, err \in errs : markSellerUpdate(r, err)

\* the ledger once b1 has onboarded: the account made for b1 names b1 in its
\* metadata and b1's profile stores it; s1's older account may have lost
\* its charges since s1 was verified
InitOnboarded ==
  /\ env = [primary |-> TRUE, connect |-> TRUE, market |-> TRUE]
  /\ \E adm \in BOOLEAN :
       profiles = [u \in Users |->
         IF u = "s1"
         THEN [stripe_account_id |-> "acct_s1", stripe_verified |-> TRUE,
               is_admin |-> adm, is_seller |-> TRUE, email |-> "mail", credits |-> 0]
         ELSE IF u = "b1"
         THEN UpsertOnboarded([stripe_account_id |-> None, stripe_verified |-> FALSE,
                 is_admin |-> FALSE, is_seller |-> FALSE, email |-> "mail",
                 credits |-> 0], "acct_1")
         ELSE [stripe_account_id |-> None, stripe_verified |-> FALSE,
               is_admin |-> FALSE, is_seller |-> FALSE, email |-> "mail",
               credits |-> 0]]
  /\ assets = [a \in AssetIds |->
       [owner_id |-> "s1", source_type |-> "uploaded_image", source_id |-> "u1"]]
  /\ listings = [l \in ListingIds |-> NoListing]
  /\ transactions = <<>>
  /\ payouts = <<>>
  /\ intents = <<>>
  /\ cpi = [s \in Calls |-> IdleCall]
  /\ wh = [r \in Reqs |-> NewReq]
  /\ dbErrs = 0
  /\ mixed = FALSE
  /\ ledger = <<>>
  /\ cco = [k \in CcoCalls |-> IdleCheckout]
  /\ \E ce \in BOOLEAN : accounts = [a \in AcctIds |->
       IF a = "acct_s1"
       THEN [exists |-> TRUE, user_id |-> None, charges_enabled |-> ce,
             payouts_enabled |-> TRUE, currently_due |-> "empty"]
       ELSE IF a = "acct_1" THEN NewAccount("b1")
       ELSE NoAccount]
  /\ onb = [k \in OnbCalls |-> IdleOnboard]
  /\ now = 0
  /\ faults = MaxDbErr
  /\ ClientIdle

\* account events of the first route while accounts change; store calls
\* may fail
NextReadiness ==
  \/ Post([posts |-> {<<"both", "primary">>}, types |-> AccountEvents])
  \/ ReadinessOps(BOOLEAN)
  \/ AccountOps([accts |-> {"acct_1"}, dues |-> {"absent", "empty", "due"}])

SpecReadiness == InitOnboarded /\ [][NextReadiness]_vars

\* onboarding calls while accounts change and disappear
NextOnboard ==
  \/ OnboardOps([vers |-> {"retrieve", "link"}, users |-> {None, "s1", "b1"},
                 errs |-> BOOLEAN])
  \/ AccountOps([accts |-> AcctIds, dues |-> {"empty", "due"}])
  \/ \E a \in AcctIds : accountRemoved(a)

SpecOnboard == Init /\ [][NextOnboard]_vars

\* a marketplace that holds a listing from the start, whose seller may be
\* privileged and may have no connected account (the listing form's canSell
\* check runs in the browser only)
InitListed ==
  /\ env = [primary |-> TRUE, connect |-> TRUE, market |-> TRUE]
  /\ \E adm \in BOOLEAN, acct \in {None, "acct_s1"} :
       profiles = [u \in Users |->
         IF u = "s1"
         THEN [stripe_account_id |-> acct, stripe_verified |-> acct # None,
               is_admin |-> adm, is_seller |-> acct # None, email |-> "mail",
               credits |-> 0]
         ELSE [stripe_account_id |-> None, stripe_verified |-> FALSE,
               is_admin |-> FALSE, is_seller |-> FALSE, email |-> "mail",
               credits |-> 0]]
  /\ assets = [a \in AssetIds |->
       [owner_id |-> "s1", source_type |-> "uploaded_image", source_id |-> "u1"]]
  /\ \E st \in {"absent", "listed"} :
       listings = [l \in ListingIds |->
         IF st = "absent" THEN NoListing ELSE NewListingRow("s1", "a1", "asset")]
  /\ transactions = <<>>
  /\ payouts = <<>>
  /\ intents = <<>>
  /\ cpi = [s \in Calls |-> IdleCall]
  /\ wh = [r \in Reqs |-> NewReq]
  /\ dbErrs = 0
  /\ mixed = FALSE
  /\ ledger = <<>>
  /\ cco = [k \in CcoCalls |-> IdleCheckout]
  /\ accounts = [a \in AcctIds |->
       IF a = "acct_s1"
       THEN [exists |-> TRUE, user_id |-> None, charges_enabled |-> TRUE,
             payouts_enabled |-> TRUE, currently_due |-> "empty"]
       ELSE NoAccount]
  /\ onb = [k \in OnbCalls |-> IdleOnboard]
  /\ now = 0
  /\ faults = MaxDbErr
  /\ ClientIdle

\* listing and checkout requests of every shape, complete or not, signed in
\* or not; store calls may fail
CheckoutKnobs == [errs |-> BOOLEAN, blank |-> TRUE, buyers |-> {"b1"},
                  amts |-> AmountsUsd, pcts |-> {5}, sessions |-> Calls]

NextCheckout ==
  \/ ListingOps(CheckoutKnobs)
  \/ CpiOps(CheckoutKnobs)
  \/ PayOps

SpecCheckout == InitListed /\ [][NextCheckout]_vars

\* the end-to-end sale of a listing at the fixed price with a 5% fee, the
\* clock running; the store answers
NextE2E ==
  \/ Sys([errs |-> {FALSE}, posts |-> SignedPosts, blank |-> FALSE,
          types |-> {"payment_intent.succeeded"}, buyers |-> {"b1"},
          amts |-> {FIXED_PRICE_USD}, pcts |-> {5}, sessions |-> Sessions])
  \/ Tick

SpecE2E == Init /\ [][NextE2E]_vars

\* the marketplace routes on an account that also sells credit packs: the
\* succeeded intents of credits sessions carry no listing and no buyer
NextMixed ==
  \/ Sys([errs |-> {FALSE}, posts |-> SignedPosts, blank |-> FALSE,
          types |-> {"payment_intent.succeeded"}, buyers |-> {"b1"},
          amts |-> AmountsUsd, pcts |-> {5}, sessions |-> Sessions])
  \/ CheckoutOps([calls |-> {1}, users |-> {"b1"}, usds |-> {20}, fails |-> {FALSE}])

SpecMixed == Init /\ [][NextMixed]_vars

\* one checkout and the deliveries of its event to the first route, with a
\* store that may fail twice
NextFailing ==
  Sys([errs |-> BOOLEAN, posts |-> {<<"both", "primary">>}, blank |-> FALSE,
       types |-> {"payment_intent.succeeded"}, buyers |-> {"b1"},
       amts |-> AmountsUsd, pcts |-> {5}, sessions |-> {1}])

SpecFailing == InitFailing /\ [][NextFailing]_vars

\* sales of a listing whose seller may have no connected account, at any
\* fee, while the clock runs and store calls may fail
NextPayout ==
  \/ Sys([errs |-> BOOLEAN, posts |-> SignedPosts, blank |-> FALSE,
          types |-> {"payment_intent.succeeded"}, buyers |-> {"b1"},
          amts |-> AmountsUsd, pcts |-> FeePercents, sessions |-> {1}])
  \/ Tick

SpecPayout == InitListed /\ [][NextPayout]_vars

\* events of every type sent to both routes, among them the types a route
\* has no case for: completed checkout sessions, and for the second route
\* the account events
NextTypes ==
  \/ Post([posts |-> SignedPosts,
           types |-> {"other", "checkout.session.completed"} \cup AccountEvents])
  \/ ReadinessOps(BOOLEAN)
  \/ CheckoutOps([calls |-> {1}, users |-> {"b1"}, usds |-> {20}, fails |-> {FALSE}])
  \/ PayOps

SpecTypes == InitOnboarded /\ [][NextTypes]_vars

\* the guest quota in a browser whose storage holds any entry
InitGuest ==
  /\ env = [primary |-> TRUE, connect |-> TRUE, market |-> TRUE]
  /\ Ledger0
  /\ faults = MaxDbErr
  /\ storage \in Entries
  /\ UploadIdle

NextGuest ==
  \/ \E n \in (0 - 1)..(FREE_LIMIT + 1) : setGuestCount(n)
  \/ incrementGuestCreation
  \/ resetGuestQuota

SpecGuest == InitGuest /\ [][NextGuest]_vars

\* ================================================================ uploads
\* lib/upload.ts, the credit-gated uploadToSupabase.  Each call stores under
\* a path of its own (Date.now() and a random suffix), so the path is the
\* call's number.
NotUpload == <<env, assets, listings, transactions, payouts, ledger, intents,
               cpi, wh, mixed, cco, accounts, onb, now, faults, storage>>

Thrown(k, u, res) == [up EXCEPT ![k] = [pc |-> "done", user |-> u, result |-> res]]

Failed(k) == up[k].pc = "done" /\ up[k].result # "returned"

\* session check and preflight: without a session it throws not_signed_in;
\* a balance read that fails is only logged; a balance read of zero or less
\* throws no_credits
uploadPreflight(k, u, err) ==
  /\ up[k].pc = "idle"
  /\ IF u = None
     THEN /\ ~err
          /\ up' = Thrown(k, None, "not_signed_in")
          /\ UNCHANGED dbErrs
     ELSE /\ StoreCall(err)
          /\ up' = IF ~err /\ profiles[u].credits <= 0
                   THEN Thrown(k, u, "no_credits")
                   ELSE [up EXCEPT ![k] = [pc |-> "upload", user |-> u,
                                           result |-> None]]
  /\ UNCHANGED <<profiles, bucket, images, events, NotUpload>>

\* storage upload: an upload error is thrown as it is
uploadStore(k, fail) ==
  /\ up[k].pc = "upload"
  /\ IF fail
     THEN up' = Thrown(k, up[k].user, "uploadError") /\ UNCHANGED bucket
     ELSE /\ up' = [up EXCEPT ![k].pc = "insert"]
          /\ bucket' = bucket \cup {k}
  /\ UNCHANGED <<profiles, dbErrs, images, events, NotUpload>>

\* the uploaded_images row of a call
ImageRow(k) == [storage_path |-> k, user_id |-> up[k].user]

\* insert into uploaded_images: the table's trigger spends one credit or
\* rejects the row with insufficient_credits; any other error is thrown as
\* it is, with the object left in the bucket
uploadInsert(k, err) ==
  /\ up[k].pc = "insert"
  /\ StoreCall(err)
  /\ LET u == up[k].user IN
     IF err
     THEN up' = Thrown(k, u, "dbError") /\ UNCHANGED <<profiles, images>>
     ELSE IF profiles[u].credits <= 0
     THEN up' = [up EXCEPT ![k].pc = "cleanup"] /\ UNCHANGED <<profiles, images>>
     ELSE /\ up' = [up EXCEPT ![k].pc = "refresh"]
          /\ images' = Append(images, ImageRow(k))
          /\ profiles' = [profiles EXCEPT ![u].credits = @ - 1]
  /\ UNCHANGED <<bucket, events, NotUpload>>

\* after insufficient_credits: remove the object, whose outcome is not read,
\* and throw no_credits
uploadCleanup(k, fail) ==
  /\ up[k].pc = "cleanup"
  /\ bucket' = IF fail THEN bucket ELSE bucket \ {k}
  /\ up' = Thrown(k, up[k].user, "no_credits")
  /\ UNCHANGED <<profiles, dbErrs, images, events, NotUpload>>

\* after the insert: read the balance again (a failed read counts as 0),
\* dispatch cardify-credits-updated and return
uploadRefresh(k, err) ==
  /\ up[k].pc = "refresh"
  /\ StoreCall(err)
  /\ events' = Append(events,
       [call |-> k,
        credits |-> IF err THEN 0 ELSE profiles[up[k].user].credits])
  /\ up' = Thrown(k, up[k].user, "returned")
  /\ UNCHANGED <<profiles, bucket, images, NotUpload>>

\* buyers holding some credits or none, and no upload started
InitUpload ==
  /\ env = [primary |-> TRUE, connect |-> TRUE, market |-> TRUE]
  /\ \E c \in [Buyers -> 0..MaxCredits] :
       profiles = [u \in Users |->
         IF u = "s1"
         THEN [stripe_account_id |-> "acct_s1", stripe_verified |-> TRUE,
               is_admin |-> FALSE, is_seller |-> TRUE, email |-> "mail",
               credits |-> 0]
         ELSE [stripe_account_id |-> None, stripe_verified |-> FALSE,
               is_admin |-> FALSE, is_seller |-> FALSE, email |-> "mail",
               credits |-> c[u]]]
  /\ Tables0
  /\ faults = MaxDbErr
  /\ ClientIdle

NextUpload ==
  \E k \in UpCalls :
    \/ \E u \in Buyers \cup {None}, err \in BOOLEAN : uploadPreflight(k, u, err)
    \/ \E fail \in BOOLEAN : uploadStore(k, fail)
    \/ \E err \in BOOLEAN : uploadInsert(k, err)
    \/ \E fail \in BOOLEAN : uploadCleanup(k, fail)
    \/ \E err \in BOOLEAN : uploadRefresh(k, err)

SpecUpload == InitUpload /\ [][NextUpload]_vars

\* the credits checkout alone, for every caller and pack size
NextPacks ==
  \/ CheckoutOps([calls |-> CcoCalls, users |-> {None, "b1"}, usds |-> UsdInputs,
                 fails |-> BOOLEAN])
  \/ \E p \in PIds : confirmPayment(p)

SpecPacks == Init /\ [][NextPacks]_vars

\* ================================================================ claims
Sale(r) == wh[r].type = "payment_intent.succeeded"
           /\ wh[r].pc \notin {"new", "rejected"}

\* the accepted sale deliveries of payment intent p
DeliveriesOf(p) == {r \in Reqs : Sale(r) /\ wh[r].pi = p}

TxOfPair(l, b) ==
  {i \in Idx(transactions) :
     transactions[i].listing_id = l /\ transactions[i].buyer_id = b}

CompletedOfPayment(p) ==
  {i \in Idx(transactions) :
     transactions[i].stripe_payment_id = p /\ transactions[i].status = "completed"}

PayoutsOf(l) == {i \in Idx(payouts) : payouts[i].listing_id = l}

\* the event of p is the only one delivered, through the first route, to a
\* ledger that holds the one transaction of its checkout and that nothing
\* but the webhook writes to meanwhile
DeliveredAlone(p) ==
  /\ \A r \in Reqs : Sale(r) => (wh[r].pi = p /\ wh[r].ver = "both")
  /\ ~mixed
  /\ dbErrs = 0
  /\ Cardinality(TxOfPair(intents[p].mkt_listing_id, intents[p].mkt_buyer_id)) = 1

SaleApplied(p) ==
  LET l == intents[p].mkt_listing_id
      b == intents[p].mkt_buyer_id
  IN /\ Cardinality(CompletedOfPayment(p)) = 1
     /\ listings[l].status = "sold"
     /\ listings[l].is_active = FALSE
     /\ listings[l].buyer_id = b
     /\ \A a \in AssetIds : assets[a].owner_id = b

\* C1: once one handler of a succeeded payment's event has finished, the
\* ledger shows the sale (one completed transaction of that payment, the
\* listing sold to the buyer and inactive, the asset owned by the buyer), and
\* it still shows exactly that while and after a second delivery of the same
\* event runs, in any interleaving of the two handlers.
C1_Idempotent ==
  \A p \in Idx(intents) :
    ((\E r \in DeliveriesOf(p) : wh[r].pc = "done") /\ DeliveredAlone(p))
      => SaleApplied(p)

C1_Witness ==
  \E p \in Idx(intents) :
    /\ Cardinality(DeliveriesOf(p)) = 2
    /\ \A r \in DeliveriesOf(p) : wh[r].pc = "done"
    /\ DeliveredAlone(p)
    /\ SaleApplied(p)

\* C2: however often the event of one succeeded payment is delivered, the
\* payouts table holds at most one row for its listing.
C2_OnePayoutPerListing ==
  \A p \in Idx(intents) :
    (\A r \in Reqs : Sale(r) => wh[r].pi = p)
      => Cardinality(PayoutsOf(intents[p].mkt_listing_id)) <= 1

\* a request's signature verifies under a secret the route has configured
VerifiesBoth(sig) ==
  (env.primary /\ sig = "primary") \/ (env.connect /\ sig = "connect")

VerifiesMarket(sig) ==
  (env.market /\ sig = "market") \/ (~env.market /\ env.primary /\ sig = "primary")

Verifiable(r) ==
  IF wh[r].ver = "market" THEN VerifiesMarket(wh[r].sig) ELSE VerifiesBoth(wh[r].sig)

Received(r) == wh[r].pc # "new"

\* C3: a webhook request whose signature verifies under no configured
\* secret, or that carries no signature, is answered with an error status,
\* is never dispatched, and its handling changes no table.
C3_Rejected ==
  /\ [](\A r \in Reqs : (Received(r) /\ ~Verifiable(r))
          => (wh[r].resp \in {"400", "500"} /\ wh[r].pc = "rejected"))
  /\ [][\A r \in Reqs :
          /\ (wh[r].pc = "new" /\ wh'[r].pc = "rejected") => db' = db
          /\ wh[r].pc = "rejected" => wh'[r] = wh[r]]_vars

C3_Witness ==
  \E r \in Reqs :
    /\ wh[r].pc = "rejected" /\ wh[r].resp = "400"
    /\ wh[r].sig \in {"other", "missing"}
    /\ \E p \in Idx(intents) : intents[p].status = "succeeded"
    /\ \E q \in Reqs : wh[q].pc = "done" /\ Sale(q)

\* the secrets the first route is expected to try, in order
ExpectedTries(sig) ==
  IF env.primary /\ sig = "primary" THEN <<"primary">>
  ELSE (IF env.primary THEN <<"primary">> ELSE <<>>)
       \o (IF env.connect THEN <<"connect">> ELSE <<>>)

\* C4: the first route tries the primary secret first and the connect secret
\* only when the primary is unset or fails; it accepts exactly when one
\* configured secret verifies the signature, and rejects only after every
\* configured secret has been tried.
C4_TwoSecrets ==
  \A r \in Reqs : (Received(r) /\ wh[r].ver = "both") =>
    /\ wh[r].resp = "ack" <=> VerifiesBoth(wh[r].sig)
    /\ wh[r].tried = ExpectedTries(wh[r].sig)
    /\ wh[r].resp = "400" =>
         /\ env.primary => \E i \in Idx(wh[r].tried) : wh[r].tried[i] = "primary"
         /\ env.connect => \E i \in Idx(wh[r].tried) : wh[r].tried[i] = "connect"
    /\ wh[r].resp = "500" <=> (~env.primary /\ ~env.connect)

C4_Witness ==
  \E r \in Reqs :
    /\ wh[r].ver = "both" /\ wh[r].resp = "ack"
    /\ wh[r].tried = <<"primary", "connect">>
    /\ wh[r].sig = "connect"

HandlerPcs == {"tx1", "tx2", "list", "xferRead", "xferWrite", "sellerRead", "payIns"}

\* C5: every request whose signature verifies is answered {received:true};
\* the answer exists before the first store call of its handler and never
\* changes afterwards, whether the handler's store calls succeed, fail or
\* are never made; and only requests that verified have a handler.
C5_AckFirst ==
  /\ [](\A r \in Reqs :
          /\ (Received(r) /\ Verifiable(r)) => wh[r].resp = "ack"
          /\ wh[r].pc \in HandlerPcs \cup {"done"}
               => (wh[r].resp = "ack" /\ Verifiable(r)))
  /\ [][\A r \in Reqs :
          /\ wh[r].resp # "none" => wh'[r].resp = wh[r].resp
          /\ (wh[r].pc = "new" /\ wh'[r].pc # "new") => db' = db
          /\ (db' # db /\ wh'[r] # wh[r]) => wh[r].resp = "ack"]_vars

\* an acknowledged event whose handler finished although its listing update
\* failed
C5_Witness ==
  \E r \in Reqs :
    /\ wh[r].resp = "ack" /\ wh[r].pc = "done" /\ Sale(r) /\ dbErrs = 1
    /\ listings[intents[wh[r].pi].mkt_listing_id].status = "listed"
    /\ CompletedOfPayment(wh[r].pi) # {}

\* C6: a handler whose update by payment id matches no row goes on to the
\* fallback, which completes every pending transaction of the event's
\* (listing, buyer) and stamps the event's payment id on it, leaving all
\* other rows alone; a handler whose update by payment id matches a row
\* completes it and skips the fallback.
C6_Fallback ==
  [][\A r \in Reqs :
       LET p == wh[r].pi
           l == intents[p].mkt_listing_id
           b == intents[p].mkt_buyer_id
       IN
       /\ (wh[r].pc = "tx1" /\ wh'[r].pc # "tx1" /\ dbErrs' = dbErrs) =>
            IF \E i \in Idx(transactions) : transactions[i].stripe_payment_id = p
            THEN /\ wh'[r].pc = "list"
                 /\ \A i \in Idx(transactions) :
                      /\ transactions'[i].stripe_payment_id
                           = transactions[i].stripe_payment_id
                      /\ transactions[i].stripe_payment_id = p
                           => transactions'[i].status = "completed"
            ELSE wh'[r].pc = "tx2" /\ transactions' = transactions
       /\ (wh[r].pc = "tx2" /\ wh'[r].pc # "tx2" /\ dbErrs' = dbErrs) =>
            \A i \in Idx(transactions) :
              IF /\ transactions[i].listing_id = l
                 /\ transactions[i].buyer_id = b
                 /\ transactions[i].status = "pending"
              THEN /\ transactions'[i].status = "completed"
                   /\ transactions'[i].stripe_payment_id = p
              ELSE transactions'[i] = transactions[i]]_vars

\* a stale row: its stored payment id differs from the event's, and the
\* fallback has completed and stamped it
C6_Witness ==
  \E r \in Reqs, i \in Idx(transactions) :
    /\ wh[r].pc = "list" /\ Sale(r)
    /\ transactions[i].stripe_payment_id = wh[r].pi
    /\ transactions[i].status = "completed"
    /\ wh[r].pi < Len(intents)
    /\ Len(transactions) = 1
    /\ \E s \in Calls : cpi[s].resp = "ok" /\ cpi[s].pid = Len(intents)
                           /\ cpi[s].pid # wh[r].pi

\* the payout amount the spec gives for an event
ExpectedNet(pi) ==
  LET F == IF Len(pi.application_fee_amount) = 0 THEN 0
           ELSE pi.application_fee_amount[1]
  IN IF pi.amount - F > 0 THEN pi.amount - F ELSE 0

\* C7: the payout row a handler inserts carries amount_cents = max(0, A - F),
\* A the event's amount and F its application fee (0 when absent); 1000 and
\* 50 give 950.
C7_NetAmount ==
  [][\A r \in Reqs :
       (wh[r].pc = "payIns" /\ wh'[r].pc = "done" /\ Len(payouts') = Len(payouts) + 1)
       => LET row == payouts'[Len(payouts')]
              pi == intents[wh[r].pi]
          IN /\ row.amount_cents = ExpectedNet(pi)
             /\ (pi.amount = 1000 /\ pi.application_fee_amount = <<50>>)
                  => row.amount_cents = 950
             /\ pi.application_fee_amount = <<>> => row.amount_cents = pi.amount]_vars

C7_Witness ==
  /\ \E i \in Idx(payouts) : payouts[i].amount_cents = 950
  /\ \E p \in Idx(intents) : intents[p].amount = 1000
                             /\ intents[p].application_fee_amount = <<50>>

\* C8: no listing has two completed transactions.
C8_OneCompletedPerListing ==
  \A l \in ListingIds :
    Cardinality({i \in Idx(transactions) :
                   transactions[i].listing_id = l
                   /\ transactions[i].status = "completed"}) <= 1

\* C9: a listing whose status is not 'listed' is not active.
C9_NotListedInactive ==
  \A l \in ListingIds :
    (listings[l].status # "absent" /\ listings[l].status # "listed")
      => listings[l].is_active = FALSE

C9_Witness ==
  \E l \in ListingIds :
    /\ listings[l].status = "sold" /\ listings[l].is_active = FALSE
    /\ mixed

\* C10: a listing's status changes only from listed to sold or from listed
\* to inactive.
C10_Transitions ==
  [][\A l \in ListingIds :
       (listings[l].status # "absent" /\ listings'[l].status # listings[l].status)
         => (listings[l].status = "listed"
             /\ listings'[l].status \in {"sold", "inactive"})]_vars

\* C11: a transaction row is inserted pending by a payment-intent creation
\* call; it becomes completed only in a step of the handler of a verified
\* success event; and a completed row keeps its status, stripe_payment_id,
\* buyer and listing in every later step, so it is completed at most once.
C11_TxLifecycle ==
  [][/\ Len(transactions') >= Len(transactions)
     /\ \A i \in Idx(transactions') \ Idx(transactions) :
          /\ transactions'[i].status = "pending"
          /\ \E s \in Calls : cpi[s].pc = "write" /\ cpi'[s].pc = "returned"
     /\ \A i \in Idx(transactions) :
          /\ (transactions[i].status = "pending"
              /\ transactions'[i].status = "completed")
               => \E r \in Reqs : /\ wh[r].pc \in {"tx1", "tx2"}
                                  /\ wh'[r].pc # wh[r].pc
                                  /\ wh[r].resp = "ack" /\ Sale(r)
          /\ transactions[i].status = "completed"
               => /\ transactions'[i].status = "completed"
                  /\ transactions'[i].stripe_payment_id
                       = transactions[i].stripe_payment_id
                  /\ transactions'[i].buyer_id = transactions[i].buyer_id
                  /\ transactions'[i].listing_id = transactions[i].listing_id]_vars

GrantPcs == {"ledger", "incr", "balRead", "balWrite"}

\* request r was accepted and routed to the credits grant
Grants(r) ==
  /\ wh[r].pc \notin {"new", "rejected"}
  /\ wh[r].type \in {"payment_intent.succeeded", "checkout.session.completed"}
  /\ Route(wh[r].ver, wh[r].type, wh[r].pi, wh[r].obj) = "ledger"

GrantsOf(p) == {r \in Reqs : Grants(r) /\ wh[r].pi = p}

Tagged(type, p) ==
  \/ type = "checkout.session.completed"
  \/ type = "payment_intent.succeeded" /\ intents[p].kind = "credits_purchase"

ExpectedVerified(o) ==
  IF ~o.charges_enabled THEN FALSE
  ELSE IF ~o.payouts_enabled THEN FALSE
  ELSE IF o.currently_due = "due" THEN FALSE
  ELSE TRUE

\* C14: an account event that names its user first upserts the profile of
\* that id and then updates the profiles that store the account id; one
\* that names none does only the update.  Each write that the store accepts
\* sets stripe_verified to charges_enabled /\ payouts_enabled /\
\* (currently_due empty or absent) of the payload, on exactly those rows.
C14_Readiness ==
  [][\A r \in Reqs :
       LET o == wh[r].obj  v == ExpectedVerified(o) IN
       /\ (wh[r].pc = "new" /\ wh'[r].type \in AccountEvents /\ wh'[r].resp = "ack")
            => wh'[r].pc = IF wh'[r].obj.user_id # None THEN "acctUpsert"
                           ELSE "acctUpdate"
       /\ (wh[r].pc = "acctUpsert" /\ wh'[r].pc # "acctUpsert") =>
            /\ wh'[r].pc = "acctUpdate"
            /\ dbErrs' = dbErrs =>
                 /\ profiles'[o.user_id].stripe_verified = v
                 /\ (o.charges_enabled /\ o.payouts_enabled
                     /\ o.currently_due \in {"empty", "absent"})
                      => profiles'[o.user_id].stripe_verified = TRUE
                 /\ \A u \in Users \ {o.user_id} : profiles'[u] = profiles[u]
       /\ (wh[r].pc = "acctUpdate" /\ wh'[r].pc # "acctUpdate" /\ dbErrs' = dbErrs) =>
            \A u \in Users :
              IF profiles[u].stripe_account_id = o.id
              THEN profiles'[u].stripe_verified = v
              ELSE profiles'[u] = profiles[u]]_vars

\* both outcomes have been written: a verified payload made b1 verified,
\* and an unverified one unverified the legacy seller
C14_Witness ==
  \E r, q \in Reqs :
    /\ wh[r].pc = "done" /\ wh[r].obj.user_id = "b1" /\ ExpectedVerified(wh[r].obj)
    /\ wh[r].obj.currently_due = "absent"
    /\ profiles["b1"].stripe_verified
    /\ wh[q].pc = "done" /\ wh[q].obj.id = "acct_s1" /\ ~ExpectedVerified(wh[q].obj)
    /\ ~profiles["s1"].stripe_verified
    /\ dbErrs = 0

CpiErrors == {"Unauthorized", "Missing fields", "Listing not found",
              "Seller profile missing", "Seller not connected to Stripe"}

\* the seller of listing l is neither privileged nor connected
Unconnected(l) ==
  /\ listings[l].status # "absent"
  /\ ~profiles[listings[l].seller_id].is_admin
  /\ profiles[listings[l].seller_id].stripe_account_id = None

\* C15: a payment-intent creation call that ends with an error creates no
\* payment intent and leaves the transactions table as it was, and takes no
\* step after its answer; and while the listing's seller is neither
\* privileged nor connected every call ends with an error, which is 'Seller
\* not connected to Stripe' unless the call failed an earlier check or lookup.
C15_Rejected ==
  [][\A s \in Calls :
       /\ (cpi[s].pc = "idle" /\ cpi'[s].pc = "returned") =>
            /\ cpi'[s].resp \in CpiErrors
            /\ cpi'[s].pid = 0
            /\ intents' = intents
            /\ transactions' = transactions
       /\ (cpi[s].pc = "returned" /\ cpi[s].resp \in CpiErrors) => cpi'[s] = cpi[s]
       /\ (cpi[s].pc = "idle" /\ cpi'[s].pc # "idle"
           /\ \A l \in ListingIds : Unconnected(l)) =>
            /\ cpi'[s].pc = "returned" /\ cpi'[s].resp \in CpiErrors
            /\ (dbErrs' = dbErrs
                /\ cpi'[s].resp \notin {"Unauthorized", "Missing fields"})
                 => cpi'[s].resp = "Seller not connected to Stripe"]_vars

C15_Witness ==
  \E s \in Calls :
    /\ cpi[s].pc = "returned" /\ cpi[s].resp = "Seller not connected to Stripe"
    /\ \A l \in ListingIds : Unconnected(l)
    /\ intents = <<>> /\ transactions = <<>>

\* ---------------------------------------------------------------- C16
\* C16: a checkout call made while a pending transaction exists for its
\* (listing, buyer) pair holds that transaction; it returns the transaction's
\* payment intent, creating nothing, exactly when that intent still
\* requires_payment_method, and otherwise creates one intent and rewrites
\* that same row with the new payment id; a call made while no pending
\* transaction exists creates one intent and inserts one pending row.
\* (Steps whose store call fails are left out.)
C16_Reuse ==
  [][\A s \in Calls :
       /\ (cpi[s].pc = "idle" /\ cpi'[s].pc = "write" /\ dbErrs' = dbErrs) =>
            LET pend == PendingFor(cpi'[s].listingId, cpi'[s].buyerId)
            IN  IF pend = {} THEN cpi'[s].open = 0 ELSE cpi'[s].open \in pend
       /\ (cpi[s].pc = "write" /\ cpi'[s].pc = "returned" /\ dbErrs' = dbErrs) =>
            LET c == cpi[s]
                n == Len(intents)
                m == Len(transactions)
            IN
            IF c.open # 0
            THEN LET h == transactions[c.open].stripe_payment_id IN
                 IF intents[h].status = "requires_payment_method"
                 THEN /\ cpi'[s].pid = h
                      /\ intents' = intents
                      /\ transactions' = transactions
                 ELSE /\ Len(intents') = n + 1
                      /\ cpi'[s].pid = n + 1
                      /\ Len(transactions') = m
                      /\ transactions'[c.open].stripe_payment_id = n + 1
                      /\ \A i \in Idx(transactions) :
                            i # c.open => transactions'[i] = transactions[i]
            ELSE /\ Len(intents') = n + 1
                 /\ cpi'[s].pid = n + 1
                 /\ Len(transactions') = m + 1
                 /\ SubSeq(transactions', 1, m) = transactions
                 /\ transactions'[m + 1].status = "pending"
                 /\ transactions'[m + 1].stripe_payment_id = n + 1
                 /\ transactions'[m + 1].listing_id = c.listingId
                 /\ transactions'[m + 1].buyer_id = c.buyerId]_vars

\* ---------------------------------------------------------------- C17
\* C17: for a listing paid at 900 cents with a 5% fee, the checkout computes
\* feeCents = 45, and when the handler of the verified success event finishes
\* with no store error the listing is sold, the pair's transaction is
\* completed and a pending payout of 855 cents exists, scheduled 10 minutes
\* after a moment of the processing.
C17_EndToEnd ==
  [][/\ \A s \in Calls :
          (cpi[s].pc = "idle" /\ cpi'[s].pc = "write"
             /\ cpi'[s].amountCents = FIXED_PRICE_USD * 100)
            => cpi'[s].feeCents = 45
     /\ \A r \in Reqs :
          (/\ wh[r].pc \notin {"new", "rejected", "done"}
           /\ wh'[r].pc = "done"
           /\ wh[r].type = "payment_intent.succeeded"
           /\ dbErrs' = 0
           /\ intents[wh[r].pi].amount = FIXED_PRICE_USD * 100
           /\ intents[wh[r].pi].application_fee_amount = <<45>>)
            => LET pi == intents[wh[r].pi]
                   l  == pi.mkt_listing_id
                   b  == pi.mkt_buyer_id
               IN
               /\ listings'[l].status = "sold"
               /\ \E i \in Idx(transactions') :
                     /\ transactions'[i].listing_id = l
                     /\ transactions'[i].buyer_id = b
                     /\ transactions'[i].status = "completed"
               /\ \E j \in Idx(payouts') :
                     /\ payouts'[j].listing_id = l
                     /\ payouts'[j].amount_cents = 855
                     /\ payouts'[j].status = "pending"
                     /\ payouts'[j].scheduled_at \in
                          (wh[r].at + PayoutDelayMin)..(now' + PayoutDelayMin)]_vars

\* ---------------------------------------------------------------- C18
\* C18: the credits checkout creates a session only for a signed-in user and
\* only for a pack of 20, 40 or 60 dollars; a signed-in user's request for any
\* other amount is answered 'Invalid pack' and creates no session; a created
\* session's metadata carries credits = usd x CREDITS_PER_USD and its line
\* item costs usd x 100 cents.
C18_Packs ==
  [][\A k \in CcoCalls :
       (cco[k].pc = "idle" /\ cco'[k].pc = "returned") =>
         LET c == cco'[k]
             n == Len(intents)
         IN
         /\ intents' # intents => (c.user # None /\ c.usd \in {20, 40, 60})
         /\ (c.user # None /\ c.usd \notin {20, 40, 60}) =>
               (c.resp = "Invalid pack" /\ intents' = intents)
         /\ c.user = None => intents' = intents
         /\ intents' # intents =>
               /\ intents' = Append(intents, intents'[n + 1])
               /\ c.resp = "url"
               /\ intents'[n + 1].session # <<>>
               /\ intents'[n + 1].session[1].kind = "credits_purchase"
               /\ intents'[n + 1].session[1].userId = c.user
               /\ intents'[n + 1].session[1].credits = String(c.usd * CREDITS_PER_USD)
               /\ intents'[n + 1].session[1].usd = String(c.usd)
               /\ intents'[n + 1].amount = c.usd * 100]_vars

\* a pack was sold and another amount was refused
C18_Witness ==
  /\ \E k \in CcoCalls : cco[k].resp = "url" /\ cco[k].usd = 40
  /\ \E k \in CcoCalls : cco[k].resp = "Invalid pack" /\ cco[k].usd = 10

\* ---------------------------------------------------------------- C19
\* C19: while a user's profile stores the id of an account that can be
\* retrieved, no onboarding step creates an account for that user or changes
\* the stored id, and a call of that user that returns answers for that
\* account: a dashboard login link when it is fully onboarded, an onboarding
\* link otherwise; and no user ever has more than one account created on
\* their behalf.  (Runs in which a store call failed are left out of the
\* first part; the link is looked at for the route that retrieves the
\* account.)
C19_Onboard ==
  [][\A u \in Users :
       LET a == profiles[u].stripe_account_id IN
       /\ (a # None /\ accounts[a].exists /\ dbErrs' = 0) =>
            /\ profiles'[u].stripe_account_id = a
            /\ \A id \in AcctIds :
                  (accounts'[id].exists /\ ~accounts[id].exists)
                    => accounts'[id].user_id # u
            /\ \A k \in OnbCalls :
                  (onb[k].pc # "returned" /\ onb'[k].pc = "returned"
                     /\ onb'[k].user = u /\ onb'[k].ver = "retrieve")
                    => /\ onb'[k].accountId = a
                       /\ onb'[k].resp = IF NeedsOnboarding(accounts[a])
                                         THEN "onboarding" ELSE "dashboard"
       /\ Cardinality({id \in AcctIds :
                         accounts'[id].exists /\ accounts'[id].user_id = u}) <= 1]_vars

\* ---------------------------------------------------------------- C20
\* a succeeded intent whose metadata lacks the listing id or the buyer id
NoSaleMetadata(pi) == pi.mkt_listing_id = None \/ pi.mkt_buyer_id = None

\* C20: a verified payment_intent.succeeded event whose intent lacks the
\* listing id or the buyer id is skipped: its handler ends where it starts,
\* and receiving it changes or creates no transaction, listing, asset or
\* payout row, so the pending transactions stay pending.
C20_Skipped ==
  [][\A r \in Reqs :
       (/\ wh'[r].pc \notin {"new", "rejected"}
        /\ wh'[r].type = "payment_intent.succeeded"
        /\ NoSaleMetadata(intents[wh'[r].pi]))
         => /\ wh'[r].pc = "done"
            /\ wh'[r] # wh[r] =>
                  /\ transactions' = transactions
                  /\ listings' = listings
                  /\ assets' = assets
                  /\ payouts' = payouts]_vars

\* such an event was accepted while a checkout's transaction was pending
C20_Witness ==
  /\ \E r \in Reqs :
        /\ wh[r].pc = "done"
        /\ wh[r].type = "payment_intent.succeeded"
        /\ wh[r].resp = "ack"
        /\ NoSaleMetadata(intents[wh[r].pi])
  /\ \E i \in Idx(transactions) : transactions[i].status = "pending"

\* ---------------------------------------------------------------- C21
\* the handler of r has finished the sale of payment p, the only event
\* delivered, and nothing else wrote to the tables meanwhile
FinishedAlone(r) ==
  /\ wh[r].pc = "done"
  /\ wh[r].type = "payment_intent.succeeded"
  /\ wh[r].ver = "both"
  /\ ~NoSaleMetadata(intents[wh[r].pi])
  /\ \A q \in Reqs \ {r} : wh[q].pc \in {"new", "rejected"}
  /\ ~mixed

PendingOfPayment(p) ==
  {i \in Idx(transactions) :
     transactions[i].stripe_payment_id = p /\ transactions[i].status = "pending"}

\* C21: a store error in one step of the sale handler neither stops the
\* later steps nor undoes the earlier ones: when both transaction updates
\* failed (the row is still pending) the listing is sold to the buyer, the
\* asset is the buyer's and the payout is queued; when the listing update
\* failed (the listing is not sold) the transaction is completed, the asset
\* is the buyer's and the payout is queued.
C21_BestEffort ==
  \A r \in Reqs :
    FinishedAlone(r) =>
      LET p == wh[r].pi
          l == intents[p].mkt_listing_id
          b == intents[p].mkt_buyer_id
      IN
      /\ (PendingOfPayment(p) # {} /\ dbErrs = 2) =>
            /\ listings[l].status = "sold"
            /\ listings[l].buyer_id = b
            /\ \A a \in AssetIds : assets[a].owner_id = b
            /\ PayoutsOf(l) # {}
      /\ (listings[l].status # "sold" /\ dbErrs = 1) =>
            /\ CompletedOfPayment(p) # {}
            /\ PendingOfPayment(p) = {}
            /\ \A a \in AssetIds : assets[a].owner_id = b
            /\ PayoutsOf(l) # {}

\* both transaction updates of a finished handler failed
C21_Witness ==
  \E r \in Reqs :
    /\ FinishedAlone(r)
    /\ PendingOfPayment(wh[r].pi) # {}
    /\ dbErrs = 2
    /\ listings[intents[wh[r].pi].mkt_listing_id].status = "sold"

\* ---------------------------------------------------------------- C22
\* C22: the payouts table changes only by a sale handler appending one row,
\* for an event that names a seller whose profile has a connected account;
\* the row is pending, carries that account and the event's listing, and is
\* scheduled 10 minutes after a moment of the processing; a handler whose
\* seller lookup fails or finds no account ends without a row.
C22_PayoutRows ==
  [][/\ payouts' # payouts =>
          \E r \in Reqs :
            LET pi  == intents[wh[r].pi]
                row == payouts'[Len(payouts) + 1]
            IN
            /\ wh[r].pc = "payIns" /\ wh'[r].pc = "done"
            /\ payouts' = Append(payouts, row)
            /\ pi.mkt_seller_id # None
            /\ profiles[pi.mkt_seller_id].stripe_account_id # None
            /\ row.status = "pending"
            /\ row.stripe_account_id = profiles[pi.mkt_seller_id].stripe_account_id
            /\ row.listing_id = pi.mkt_listing_id
            /\ row.scheduled_at \in
                 (wh[r].at + PayoutDelayMin)..(now + PayoutDelayMin)
     /\ \A r \in Reqs :
          (/\ wh[r].pc = "sellerRead" /\ wh'[r] # wh[r]
           /\ \/ dbErrs' # dbErrs
              \/ profiles[intents[wh[r].pi].mkt_seller_id].stripe_account_id = None)
            => (wh'[r].pc = "done" /\ payouts' = payouts)
     /\ \A r \in Reqs :
          (wh[r].pc = "done" /\ wh'[r] = wh[r] /\ payouts' # payouts)
            => \E q \in Reqs \ {r} : wh[q].pc = "payIns"]_vars

\* a payout was queued after the clock had moved, and a handler ended
\* without one
C22_Witness ==
  /\ \E j \in Idx(payouts) : payouts[j].scheduled_at > PayoutDelayMin
  /\ \E r \in Reqs :
        /\ wh[r].pc = "done" /\ wh[r].type = "payment_intent.succeeded"
        /\ wh[r].at > 0
        /\ \A j \in Idx(payouts) : payouts[j].scheduled_at < wh[r].at + PayoutDelayMin

\* ---------------------------------------------------------------- C23
\* the event types a route has a case for
HandledTypes(ver) ==
  IF ver = "market" THEN {"payment_intent.succeeded"}
  ELSE {"payment_intent.succeeded"} \cup AccountEvents

\* C23: a verified event of a type the route has no case for is answered
\* {received:true}, its task ends at once, and receiving it changes no
\* table: transactions, listings, assets, payouts, profiles and the credits
\* ledger are as before.
C23_Ignored ==
  [][\A r \in Reqs :
       /\ (/\ wh[r].pc = "new"
           /\ wh'[r].pc \notin {"new", "rejected"}
           /\ wh'[r].type \notin HandledTypes(wh'[r].ver))
            => /\ wh'[r].resp = "ack"
               /\ wh'[r].pc = "done"
               /\ db' = db
       /\ (wh[r].pc = "done" /\ wh[r].type \notin HandledTypes(wh[r].ver))
            => wh'[r] = wh[r]]_vars

\* the second route has ignored an account event and a route has ignored a
\* completed checkout session
C23_Witness ==
  /\ \E r \in Reqs :
        /\ wh[r].pc = "done" /\ wh[r].resp = "ack" /\ wh[r].ver = "market"
        /\ wh[r].type = "account.updated"
  /\ \E r \in Reqs :
        /\ wh[r].pc = "done" /\ wh[r].resp = "ack"
        /\ wh[r].type = "checkout.session.completed"

\* ---------------------------------------------------------------- C24
\* C24: whatever local storage holds, getGuestCount is an integer in
\* 0..FREE_LIMIT, getRemaining is FREE_LIMIT minus the count, and
\* canCreateMore is true exactly when getRemaining is positive.
C24_GuestCount ==
  /\ getGuestCount \in 0..FREE_LIMIT
  /\ getRemaining = FREE_LIMIT - getGuestCount
  /\ canCreateMore <=> getRemaining > 0

\* ---------------------------------------------------------------- C25
\* C25: when every sale handler the first route has started has finished
\* (and none failed on the store), the asset of a listing belongs to the
\* buyer the listing names, also after the handlers of two buyers' events
\* ran interleaved.
C25_OwnerIsBuyer ==
  (/\ \A r \in Reqs : wh[r].pc \in {"new", "rejected", "done"}
   /\ \E r \in Reqs : Sale(r)
   /\ \A r \in Reqs : Sale(r) => wh[r].ver = "both"
   /\ dbErrs = 0)
    => \A l \in ListingIds :
         listings[l].buyer_id # None
           => \A a \in AssetIds : assets[a].owner_id = listings[l].buyer_id

\* ---------------------------------------------------------------- C26
\* C26: in every reachable state each (listing, buyer) pair has at most one
\* pending transaction.
C26_OnePending ==
  \A l \in ListingIds, b \in Buyers : Cardinality(PendingFor(l, b)) <= 1

\* ---------------------------------------------------------------- C27
\* C27: a checkout call gets past its checks, and goes on to create a payment
\* intent and write a pending transaction, only for a listing that is listed
\* and active at that moment.
C27_ListedOnly ==
  [][\A s \in Calls :
       (cpi[s].pc = "idle" /\ cpi'[s].pc = "write")
         => /\ listings[cpi'[s].listingId].status = "listed"
            /\ listings[cpi'[s].listingId].is_active]_vars

\* ---------------------------------------------------------------- C28
\* C28: when a checkout call returns a payment intent, a pending transaction
\* of the call's (listing, buyer) pair carries that intent's id, also when
\* the store refused the call's insert or update.
C28_TxOfReturnedIntent ==
  [][\A s \in Calls :
       (cpi[s].pc = "write" /\ cpi'[s].pc = "returned" /\ cpi'[s].resp = "ok")
         => \E i \in Idx(transactions') :
              /\ transactions'[i].listing_id = cpi'[s].listingId
              /\ transactions'[i].buyer_id = cpi'[s].buyerId
              /\ transactions'[i].status = "pending"
              /\ transactions'[i].stripe_payment_id = cpi'[s].pid]_vars

\* ---------------------------------------------------------------- C29
\* C29: a step of an account event's handler changes, on the profiles that
\* exist, only stripe_account_id, stripe_verified and is_seller: email and
\* credits stay as they were, and a profile matched neither by the
\* account's user_id nor by its account id is not changed at all.
C29_ProfileFrame ==
  [][\A r \in Reqs :
       (wh[r].pc \in {"acctUpsert", "acctUpdate"} /\ wh'[r] # wh[r]) =>
         \A u \in Users :
           /\ profiles'[u].email = profiles[u].email
           /\ profiles'[u].credits = profiles[u].credits
           /\ profiles'[u].is_admin = profiles[u].is_admin
           /\ (u # wh[r].obj.user_id /\ profiles[u].stripe_account_id # wh[r].obj.id)
                => profiles'[u] = profiles[u]]_vars

\* ---------------------------------------------------------------- C30
\* the call's object is recorded in uploaded_images
Recorded(k) == \E i \in 1..Len(images) : images[i].storage_path = k

\* the call has dispatched a credits update
Broadcast(k) == \E i \in 1..Len(events) : events[i].call = k

\* C30: the credit-gated uploadToSupabase leaves no stored object behind
\* when the upload is not recorded.  A balance read of zero or less throws
\* no_credits with nothing written to storage; a rejection of the insert
\* with insufficient_credits ends with the object removed and no_credits
\* thrown; and a call that has failed has dispatched no credits update and,
\* when it has no uploaded_images row, has no object in the bucket.
C30_NoOrphan ==
  [][\A k \in UpCalls :
       /\ (up[k].pc = "idle" /\ up'[k].pc # "idle" /\ up'[k].user # None
             /\ dbErrs' = dbErrs /\ profiles[up'[k].user].credits <= 0)
            => (up'[k].pc = "done" /\ up'[k].result = "no_credits"
                /\ bucket' = bucket)
       /\ (up[k].pc = "cleanup" /\ up'[k].pc = "done")
            => (up'[k].result = "no_credits" /\ k \notin bucket')
       /\ Failed(k)' => (~Broadcast(k)' /\ (~Recorded(k)' => k \notin bucket'))
    ]_vars

====
